---------------------------- MODULE Spec2Model ----------------------------
(***************************************************************************)
(* DayByDay (src/streamlit_app.py): a Streamlit planner.  A user generates *)
(* an 8-day plan with an AI collaborator, edits it in a session draft that *)
(* is checkpointed to session.json, and saves snapshots to a history.      *)
(*                                                                         *)
(* Conventions of the model                                                *)
(*  - A Python str that the program inspects (plan text, task text, title, *)
(*    chat text) is a sequence of one-character strings, so that find,     *)
(*    strip, splitlines, startswith and slicing are computed character by  *)
(*    character as the code computes them.  Strings the program only       *)
(*    stores or shows (error messages, user names, tabs) are TLA+ strings. *)
(*  - Positions are 1-based; Python's find() result -1 is 0 here, and the  *)
(*    day index d of the code (0..7) is d+1 here (1..8).                   *)
(*  - Python's None is the string "None".                                  *)
(*  - One action is one Streamlit script run: the whole file is executed   *)
(*    top to bottom for one widget event.                                  *)
(*  - In a run, every widget but the one the user acted on returns the     *)
(*    value the page showed: a checkbox and a text input return the done   *)
(*    flag and the text of their task, the sidebar radio the active tab.   *)
(*  - A file write that returns has written the whole file, and a Supabase *)
(*    insert that raises has inserted nothing.  The draft, the transcript  *)
(*    and the snapshots hold only str, int, bool, list, dict and None, so  *)
(*    json.dump followed by json.load gives back the value written.        *)
(*  - Time stands still (now): no login expires during a behaviour.        *)
(***************************************************************************)
EXTENDS Integers, Sequences, FiniteSets, TLC

None == "None"
NL == "\n"

Min(S) == CHOOSE x \in S : \A y \in S : x <= y
Max(S) == CHOOSE x \in S : \A y \in S : x >= y

(***************************************************************************)
(* Python str primitives, on sequences of characters.                      *)
(***************************************************************************)
UpperLetters == <<"A","B","C","D","E","F","G","H","I","J","K","L","M",
                  "N","O","P","Q","R","S","T","U","V","W","X","Y","Z">>
LowerLetters == <<"a","b","c","d","e","f","g","h","i","j","k","l","m",
                  "n","o","p","q","r","s","t","u","v","w","x","y","z">>

\* str.lower() on one character
LowerChar(c) ==
    IF \E i \in 1..Len(UpperLetters) : UpperLetters[i] = c
    THEN LowerLetters[CHOOSE i \in 1..Len(UpperLetters) : UpperLetters[i] = c]
    ELSE c

\* str.lower()
Lower(s) == [i \in 1..Len(s) |-> LowerChar(s[i])]

\* str.isdigit() on one character
IsDigit(c) == c \in {"0","1","2","3","4","5","6","7","8","9"}

\* the characters str.strip() removes (those of them the model's texts use)
IsSpace(c) == c \in {" ", NL, "\t", "\r"}

\* s.strip(chars): drop the leading and trailing characters that are in chars
StripChars(s, chars) ==
    LET keep == {i \in 1..Len(s) : s[i] \notin chars}
    IN  IF keep = {} THEN <<>> ELSE SubSeq(s, Min(keep), Max(keep))

\* s.strip()
Strip(s) == StripChars(s, {" ", NL, "\t", "\r"})

\* s.startswith(p)
StartsWith(s, p) == Len(s) >= Len(p) /\ SubSeq(s, 1, Len(p)) = p

\* s.find(tok, start): the least position >= start where tok occurs, 0 if none
\* (Python: 0-based, -1 if none)
Find(s, tok, start) ==
    LET at == {i \in start..(Len(s) - Len(tok) + 1) : SubSeq(s, i, i + Len(tok) - 1) = tok}
    IN  IF at = {} THEN 0 ELSE Min(at)

\* tok in s
Contains(s, tok) == Find(s, tok, 1) # 0

\* s.splitlines(): the lines of s, without their line ends; a final line end
\* opens no further line
RECURSIVE SplitLines(_)
SplitLines(s) ==
    IF s = <<>> THEN <<>>
    ELSE LET nl == Find(s, <<NL>>, 1)
         IN  IF nl = 0 THEN <<s>>
             ELSE <<SubSeq(s, 1, nl - 1)>> \o SplitLines(SubSeq(s, nl + 1, Len(s)))

\* "".join(parts) for a sequence of strings
RECURSIVE Concat(_)
Concat(parts) == IF parts = <<>> THEN <<>> ELSE Head(parts) \o Concat(Tail(parts))

\* str(i) for the one-digit numbers the program formats
DigitChar(i) == <<"0","1","2","3","4","5","6","7","8","9">>[i + 1]

\* f"Day {i}"
DayToken(i) == <<"D", "a", "y", " ", DigitChar(i)>>

NumDays == 8
Days == 1..NumDays

(***************************************************************************)
(* parse_plan_to_tasks                                                     *)
(***************************************************************************)
\* lines 513-520: the raw segment of day i, "" when "Day i" does not occur
DaySegment(plan_text, i) ==
    LET idx == Find(plan_text, DayToken(i), 1)
    IN  IF idx = 0 THEN <<>>
        ELSE LET end == Find(plan_text, DayToken(i + 1), idx + 1)
             IN  IF end # 0 THEN Strip(SubSeq(plan_text, idx, end - 1))
                 ELSE Strip(SubSeq(plan_text, idx, Len(plan_text)))

\* line 529-530: the stripped line is taken as a task line
IsTaskLine(l) ==
    /\ l # <<>>
    /\ ~StartsWith(Lower(l), <<"d", "a", "y">>)
    /\ ~StartsWith(Lower(l), <<"-", " ", "g", "o", "a", "l">>)

\* line 533 evaluates l[1] on a line of one character, a digit: IndexError
LineRaises(l) == IsTaskLine(l) /\ ~StartsWith(l, <<"-", " ">>) /\ IsDigit(l[1]) /\ Len(l) = 1

\* lines 531-536: the task text of a task line
LineText(l) ==
    IF StartsWith(l, <<"-", " ">>) THEN Strip(SubSeq(l, 3, Len(l)))
    ELSE IF IsDigit(l[1]) /\ Len(l) >= 2 /\ l[2] \in {")", "."}
         THEN IF Contains(l, <<")">>)
              THEN Strip(SubSeq(l, Find(l, <<")">>, 1) + 1, Len(l)))
              ELSE l
         ELSE l

\* lines 528-537: the task texts of one day segment, in line order
SegmentTexts(d) ==
    LET ls == [k \in 1..Len(SplitLines(d)) |-> Strip(SplitLines(d)[k])]
        tl == SelectSeq(ls, IsTaskLine)
        ts == [k \in 1..Len(tl) |-> LineText(tl[k])]
    IN  SelectSeq(ts, LAMBDA t : t # <<>>)

\* some line of the segment raises
SegmentRaises(d) ==
    \E k \in 1..Len(SplitLines(d)) : LineRaises(Strip(SplitLines(d)[k]))

\* NumberDays with the count starting again at tid in every day
NumberDays_PerDay(texts, tid) ==
    [d \in 1..Len(texts) |->
        [k \in 1..Len(texts[d]) |-> [id |-> tid + k - 1, text |-> texts[d][k], done |-> FALSE]]]

\* lines 521-540: ids count up from 0 over the days in order
RECURSIVE NumberDays(_, _)
NumberDays(texts, tid) ==
    IF texts = <<>> THEN <<>>
    ELSE <<[k \in 1..Len(Head(texts)) |->
              [id |-> tid + k - 1, text |-> Head(texts)[k], done |-> FALSE]]>>
         \o NumberDays(Tail(texts), tid + Len(Head(texts)))

\* parse_plan_to_tasks(plan_text): [raised |-> TRUE] when the call ends in
\* IndexError, else the 8 day-slots in value
parse_plan_to_tasks(plan_text) ==
    LET days == [i \in Days |-> DaySegment(plan_text, i)]
    IN  IF \E i \in Days : SegmentRaises(days[i])
        THEN [raised |-> TRUE, value |-> <<>>]
        ELSE [raised |-> FALSE,
              value |-> NumberDays([i \in Days |-> SegmentTexts(days[i])], 0)]

(***************************************************************************)
(* plan_progress_percent                                                   *)
(***************************************************************************)
\* lines 549-552: the inner loop over one day, from the counts c so far
RECURSIVE TallyDay(_, _)
TallyDay(day, c) ==
    IF day = <<>> THEN c
    ELSE TallyDay(Tail(day),
                  [total |-> c.total + 1,
                   done  |-> IF Head(day).done THEN c.done + 1 ELSE c.done])

\* lines 546-552: the outer loop over the day lists
RECURSIVE Tally(_, _)
Tally(tasks_lists, c) ==
    IF tasks_lists = <<>> THEN c
    ELSE Tally(Tail(tasks_lists), TallyDay(Head(tasks_lists), c))

\* plan_progress_percent rounding to the nearest integer
plan_progress_percent_Rounded(tasks_lists) ==
    LET c == Tally(tasks_lists, [total |-> 0, done |-> 0])
    IN  IF c.total # 0 THEN (c.done * 200 + c.total) \div (2 * c.total) ELSE 0

\* line 553, int(done*100/total) if total else 0: the quotient is not
\* negative, so int() truncates it to its floor
plan_progress_percent(tasks_lists) ==
    LET c == Tally(tasks_lists, [total |-> 0, done |-> 0])
    IN  IF c.total # 0 THEN (c.done * 100) \div c.total ELSE 0

(***************************************************************************)
(* State                                                                   *)
(***************************************************************************)
VARIABLES
    ss,             \* st.session_state: user, user_email, active_tab, project,
                    \* chat_history, last_ai_error, chat_pref,
                    \* chat_pref_processed, login_expires
    session_file,   \* session.json
    projects_file,  \* projects.json: user key -> list of project snapshots
    users_file,     \* users.json: key (email) -> account
    supa_projects,  \* the rows of the Supabase table "projects", oldest first
    feed_file,      \* feed.json: the list of feed entries, newest first
    supa_feed,      \* the rows of the Supabase table "feed", oldest first
    SUPABASE_CONFIGURED,  \* line 44, from the environment
    now,            \* datetime.utcnow(), in units of 24 hours
    ev,             \* the widget event the last script run handled
    undo,           \* <<tasks>>: the tasks before the Add that ev names
    events,         \* the number of script runs so far
    call,           \* a direct call of a pure function: its name and argument
    ret             \* the result of that call

vars == <<ss, session_file, projects_file, users_file, supa_projects, feed_file, supa_feed,
          SUPABASE_CONFIGURED, now, ev, undo, events, call, ret>>

\* the program's state as one value w, so that a handler is a function of it
World ==
    [ss |-> ss, session_file |-> session_file, projects_file |-> projects_file,
     users_file |-> users_file, supa_projects |-> supa_projects,
     feed_file |-> feed_file, supa_feed |-> supa_feed,
     SUPABASE_CONFIGURED |-> SUPABASE_CONFIGURED, now |-> now]

\* None for a time-valued field (generated_at, login_expires)
NoTime == -1

\* line 135 and line 704: the empty project
EmptyProject ==
    [title |-> <<>>, constraints |-> <<>>, raw_plan |-> <<>>,
     tasks |-> [d \in Days |-> <<>>], generated_at |-> NoTime]

\* lines 128-143: session state initialization of a new session
InitialSession ==
    [user |-> None, user_email |-> None, active_tab |-> "Home",
     project |-> EmptyProject, chat_history |-> <<>>, last_ai_error |-> None,
     chat_pref |-> <<>>, chat_pref_processed |-> FALSE, login_expires |-> NoTime,
     username |-> None]

\* a JSON object with no key: what ensure_file writes (lines 70-73)
EmptyObject == <<>>

\* A JSON file is [valid, data]: data is the value json.load returns when the
\* content parses (valid); a file that is missing or does not parse is not valid.
\* write_json, lines 121-123: the file after a completed write of data
write_json(data) == [valid |-> TRUE, data |-> data]

\* read_json(path, default), lines 114-119
read_json(file, default) == IF file.valid THEN file.data ELSE default

\* the payload of save_session, lines 150-157
SessionPayload(s) ==
    [active_tab |-> s.active_tab, user |-> s.user, user_email |-> s.user_email,
     project |-> s.project, chat_history |-> s.chat_history,
     login_expires |-> s.login_expires]

\* save_session, lines 148-158: the world after it
save_session(w) == [w EXCEPT !.session_file = write_json(SessionPayload(w.ss))]

SessionKeys == {"active_tab", "user", "user_email", "project", "chat_history", "login_expires"}

\* load_session without the expiry check of lines 163-173
load_session_NeverExpires(s, file, t) ==
    LET data == read_json(file, EmptyObject)
    IN  [k \in DOMAIN s |-> IF k \in SessionKeys /\ k \in DOMAIN data THEN data[k] ELSE s[k]]

\* load_session, lines 160-177: the session state after it, at time t
load_session(s, file, t) ==
    LET data == read_json(file, EmptyObject)
        login_expires == IF "login_expires" \in DOMAIN data
                         THEN data["login_expires"] ELSE NoTime
        expired == login_expires # NoTime /\ login_expires < t
        kept == IF expired
                THEN DOMAIN data \ {"user", "user_email", "login_expires"}
                ELSE DOMAIN data
    IN  [k \in DOMAIN s |-> IF k \in SessionKeys /\ k \in kept THEN data[k] ELSE s[k]]

(***************************************************************************)
(* Persistence of projects                                                 *)
(***************************************************************************)
\* dict.get(key, []) on the projects file
HistoryOf(projects, key) == IF key \in DOMAIN projects THEN projects[key] ELSE <<>>

\* line 351: user_email or user or "anonymous"
UserKey(s) ==
    IF s.user_email # None THEN s.user_email
    ELSE IF s.user # None THEN s.user ELSE "anonymous"

\* SaveLocal keeping only the newest snapshot of the user
SaveLocal_OnlyLatest(w) ==
    LET projects == read_json(w.projects_file, EmptyObject)
        user_key == UserKey(w.ss)
    IN  [w EXCEPT !.projects_file =
            write_json([k \in DOMAIN projects \cup {user_key} |->
                          IF k = user_key THEN <<w.ss.project>> ELSE projects[k]])]

\* lines 350-355: the local fallback of save_project_to_history
SaveLocal(w) ==
    LET projects == read_json(w.projects_file, EmptyObject)
        user_key == UserKey(w.ss)
        user_projects == Append(HistoryOf(projects, user_key), w.ss.project)
    IN  [w EXCEPT !.projects_file =
            write_json([k \in DOMAIN projects \cup {user_key} |->
                          IF k = user_key THEN user_projects ELSE projects[k]])]

\* lines 339-344: the row inserted into the Supabase table
SaveSupabase(w) ==
    [w EXCEPT !.supa_projects =
        Append(@, [user_email |-> w.ss.user_email, project_json |-> w.ss.project,
                   created_at |-> w.now])]

\* save_project_to_history, lines 335-356: the world after it; insert_ok says
\* whether the Supabase insert returns (it may raise, and then inserts nothing)
save_project_to_history(w, insert_ok) ==
    IF w.SUPABASE_CONFIGURED /\ w.ss.user_email # None /\ insert_ok
    THEN SaveSupabase(w)
    ELSE SaveLocal(w)

\* the rows of a user, newest first (the query of line 364)
RECURSIVE RowsOf(_, _)
RowsOf(rows, email) ==
    IF rows = <<>> THEN <<>>
    ELSE LET r == rows[Len(rows)]
             rest == RowsOf(SubSeq(rows, 1, Len(rows) - 1), email)
         IN  IF r.user_email = email THEN <<r>> \o rest ELSE rest

\* load_last_project_for_user, lines 358-380: <<>> for None, else <<project>>;
\* query_ok says whether the Supabase query returns (it may raise)
load_last_project_for_user(w, query_ok) ==
    LET projects == read_json(w.projects_file, EmptyObject)
        user_email == w.ss.user_email
        user == w.ss.user
        mine == RowsOf(w.supa_projects, user_email)
    IN  IF w.SUPABASE_CONFIGURED /\ user_email # None /\ query_ok /\ mine # <<>>
        THEN <<mine[1].project_json>>
        ELSE IF user_email # None /\ HistoryOf(projects, user_email) # <<>>
        THEN <<HistoryOf(projects, user_email)[Len(HistoryOf(projects, user_email))]>>
        ELSE IF user # None /\ HistoryOf(projects, user) # <<>>
        THEN <<HistoryOf(projects, user)[Len(HistoryOf(projects, user))]>>
        ELSE <<>>

(***************************************************************************)
(* One script run, up to the widgets of the tabs                           *)
(***************************************************************************)
\* line 180: load_session() at the top of every script run
Loaded(w) == [w EXCEPT !.ss = load_session(w.ss, w.session_file, w.now)]

\* line 937: the run shows the app and not the login screen
LoggedIn(w) == Loaded(w).ss.user # None

\* lines 942-945: a draft without title is replaced by the last saved project
LoadDraft(w, query_ok) ==
    LET last_proj == load_last_project_for_user(w, query_ok)
    IN  IF w.ss.project.title = <<>> /\ last_proj # <<>>
        THEN [w EXCEPT !.ss.project = last_proj[1]]
        ELSE w

Tabs == {"Home", "Planner", "Chat", "Feed"}

\* line 654: tabs.index(active_tab) raises ValueError for any other value
SidebarRaises(w) == LoadDraft(Loaded(w), TRUE).ss.active_tab \notin Tabs

\* lines 180, 942-945 and 654-656: the world when the tabs of render_app_ui
\* are drawn, the radio of the sidebar left as it is
Entered(w, query_ok) == save_session(LoadDraft(Loaded(w), query_ok))

\* the widgets of render_app_ui are drawn in this run
AppShown(w) == LoggedIn(w) /\ ~SidebarRaises(w)

(***************************************************************************)
(* Planner: the task handlers of a day card                                *)
(***************************************************************************)
\* lines 782 and 796: the ids of all tasks of the project
AllIds(tasks) == UNION {{tasks[d][k].id : k \in 1..Len(tasks[d])} : d \in Days}

\* lines 783 and 797: (max(all_ids) + 1) if all_ids else 0
NewId(tasks) == IF AllIds(tasks) # {} THEN Max(AllIds(tasks)) + 1 ELSE 0

\* AddTask with the new id taken from the ids of day d alone
AddTask_DayLocalId(tasks, d, text) ==
    LET ids == {tasks[d][k].id : k \in 1..Len(tasks[d])}
    IN  [tasks EXCEPT ![d] = Append(@, [id |-> IF ids # {} THEN Max(ids) + 1 ELSE 0,
                                        text |-> text, done |-> FALSE])]

\* line 784: the Add handler's append, new_task already stripped and not empty
AddTask(tasks, d, text) ==
    [tasks EXCEPT ![d] = Append(@, [id |-> NewId(tasks), text |-> text, done |-> FALSE])]

\* RemoveTask dropping the first task of day d, whatever its id
RemoveTask_First(tasks, d, id) ==
    [tasks EXCEPT ![d] = Tail(@)]

\* line 776: the Remove handler's filter
RemoveTask(tasks, d, id) ==
    [tasks EXCEPT ![d] = SelectSeq(@, LAMBDA tt : tt.id # id)]

\* ToggleTask flipping every task of day d
ToggleTask_WholeDay(tasks, d, k) ==
    [tasks EXCEPT ![d] = [j \in 1..Len(@) |-> [@[j] EXCEPT !.done = ~@]]]

\* lines 761-762: the checkbox of the k-th task of day d was flipped
ToggleTask(tasks, d, k) == [tasks EXCEPT ![d][k].done = ~@]

\* lines 765-766: the text input of the k-th task of day d was changed
EditTaskText(tasks, d, k, new_text) == [tasks EXCEPT ![d][k].text = new_text]

\* line 794: the lines of the reply, each stripped of "-" and " " at its ends
ReplyLines(resp) ==
    LET nonblank == SelectSeq(SplitLines(resp), LAMBDA l : Strip(l) # <<>>)
    IN  [k \in 1..Len(nonblank) |-> Strip(StripChars(nonblank[k], {"-", " "}))]

\* line 798: lines[:6]
MaxRegenLines == 6

\* RegenerateDay that takes every line of the reply
RegenerateDay_Untruncated(tasks, d, lines) ==
    LET nid == NewId(tasks)
    IN  [tasks EXCEPT ![d] = [k \in 1..Len(lines) |->
                                 [id |-> nid + k - 1, text |-> lines[k], done |-> FALSE]]]

\* lines 795-801: the Regenerate handler's replacement of day d
RegenerateDay(tasks, d, lines) ==
    LET n == IF Len(lines) < MaxRegenLines THEN Len(lines) ELSE MaxRegenLines
        nid == NewId(tasks)
    IN  [tasks EXCEPT ![d] = [k \in 1..n |-> [id |-> nid + k - 1, text |-> lines[k], done |-> FALSE]]]

\* ClearDay deleting the slot of day d, so that the later days move up
ClearDay_DropSlot(tasks, d) ==
    SubSeq(tasks, 1, d - 1) \o SubSeq(tasks, d + 1, Len(tasks))

\* line 805: the Clear Day handler
ClearDay(tasks, d) == [tasks EXCEPT ![d] = <<>>]

(***************************************************************************)
(* The AI collaborator and call_ai                                         *)
(***************************************************************************)
\* What one call of the collaborator does: it raises, or returns a response
\* whose .text is text (<<>> when the attribute is missing, None or "") and
\* whose str() is repr.
Raises == [raises |-> TRUE, text |-> <<>>, repr |-> <<>>]
Answers(text) == [raises |-> FALSE, text |-> text, repr |-> <<"<", "r", ">">>]

\* lines 455-456 and 463-464: getattr(resp, "text", None) or str(resp), stripped
ResponseText(resp) == Strip(IF resp.text # <<>> THEN resp.text ELSE resp.repr)

\* call_ai that tries generate_text once more after both attempts raised
call_ai_Retrying(ai) ==
    LET first == IF ai.has_generate_text THEN <<"generate_text">> ELSE <<>>
    IN  IF ~ai.key
        THEN [ok |-> FALSE, text |-> <<>>, error |-> "ERROR_NO_API_KEY", attempts |-> <<>>]
        ELSE IF ai.has_generate_text /\ ~ai.gt.raises
        THEN [ok |-> TRUE, text |-> ResponseText(ai.gt), error |-> None, attempts |-> first]
        ELSE IF ~ai.gm.raises
        THEN [ok |-> TRUE, text |-> ResponseText(ai.gm), error |-> None,
              attempts |-> first \o <<"GenerativeModel">>]
        ELSE [ok |-> FALSE, text |-> <<>>,
              error |-> IF ai.has_generate_text
                        THEN "generate_text: e | GenerativeModel: e"
                        ELSE "GenerativeModel: e",
              attempts |-> first \o <<"GenerativeModel">> \o first]

\* call_ai, lines 446-467.  ai is the collaborator as this call finds it:
\* key (GEMINI_API_KEY set and genai imported), has_generate_text, and what
\* generate_text (gt) and GenerativeModel.generate_content (gm) do.
\* attempts lists the invocations of the collaborator in their order, each
\* by its calling convention: generate_text is invoked at line 454 when the
\* library has it, GenerativeModel at lines 461-462 when line 456 was not
\* reached, and line 467 follows a raise of the second.
call_ai(ai) ==
    LET first == IF ai.has_generate_text THEN <<"generate_text">> ELSE <<>>
    IN  IF ~ai.key
        THEN [ok |-> FALSE, text |-> <<>>, error |-> "ERROR_NO_API_KEY", attempts |-> <<>>]
        ELSE IF ai.has_generate_text /\ ~ai.gt.raises
        THEN [ok |-> TRUE, text |-> ResponseText(ai.gt), error |-> None, attempts |-> first]
        ELSE IF ~ai.gm.raises
        THEN [ok |-> TRUE, text |-> ResponseText(ai.gm), error |-> None,
              attempts |-> first \o <<"GenerativeModel">>]
        ELSE [ok |-> FALSE, text |-> <<>>,
              error |-> IF ai.has_generate_text
                        THEN "generate_text: e | GenerativeModel: e"
                        ELSE "GenerativeModel: e",
              attempts |-> first \o <<"GenerativeModel">>]

\* the collaborator's behaviours when its answers are drawn from texts
AiBehaviours(texts) ==
    {[key |-> FALSE, has_generate_text |-> FALSE, gt |-> Raises, gm |-> Raises]}
    \cup {[key |-> TRUE, has_generate_text |-> TRUE, gt |-> Answers(t), gm |-> Raises] :
            t \in texts}
    \cup {[key |-> TRUE, has_generate_text |-> h, gt |-> Raises, gm |-> Answers(t)] :
            h \in BOOLEAN, t \in {CHOOSE t \in texts : TRUE}}
    \cup {[key |-> TRUE, has_generate_text |-> h, gt |-> Raises, gm |-> Raises] :
            h \in BOOLEAN}

\* ask_daybot_for_day_update, lines 491-498
ask_daybot_for_day_update(ai) ==
    IF ~call_ai(ai).ok THEN [ok |-> FALSE, resp |-> <<>>]
    ELSE [ok |-> TRUE, resp |-> call_ai(ai).text]

(***************************************************************************)
(* Bounds and inputs of the model                                          *)
(***************************************************************************)
\* no handler of a bounded specification mints a task id above MaxId
MaxId == 3

\* the day cards whose widgets the model operates
DayInputs == {1, 2}
\* what the user types into the Add field of a day
TaskInputs == {<<"a", " ">>, <<" ">>, <<>>}
\* what the collaborator answers to a Regenerate request
RegenReplies == {<<"-", " ", "b">>, <<"-", " ", "a", NL, "b", NL>>}
\* whether the Supabase query of line 364 returns or raises, where it is made
QueryOutcomes == IF SUPABASE_CONFIGURED THEN BOOLEAN ELSE {TRUE}
\* whether the Supabase insert of line 344 returns or raises, where it is made
InsertOutcomes == IF SUPABASE_CONFIGURED THEN BOOLEAN ELSE {FALSE}

NoEvent == [op |-> "none", day |-> 0, id |-> 0]
Event(op, d, id) == [op |-> op, day |-> d, id |-> id]

\* the script run ends in world w, having handled event e
Step(w, e) ==
    /\ ss' = w.ss
    /\ session_file' = w.session_file
    /\ projects_file' = w.projects_file
    /\ users_file' = w.users_file
    /\ supa_projects' = w.supa_projects
    /\ feed_file' = w.feed_file
    /\ supa_feed' = w.supa_feed
    /\ ev' = e
    /\ UNCHANGED <<SUPABASE_CONFIGURED, now, call, ret>>

(***************************************************************************)
(* Planner handlers: one action is the script run of one widget event      *)
(***************************************************************************)
\* lines 780-785: the run of Add on day d with new_task typed
\* AddRun that tests new_task without stripping it
AddRun_KeepBlank(w, d, new_task, query_ok) ==
    LET w1 == Entered(w, query_ok)
    IN  IF new_task # <<>>
        THEN save_session([w1 EXCEPT !.ss.project.tasks = AddTask(@, d, Strip(new_task))])
        ELSE w1

AddRun(w, d, new_task, query_ok) ==
    LET w1 == Entered(w, query_ok)
    IN  IF Strip(new_task) # <<>>
        THEN save_session([w1 EXCEPT !.ss.project.tasks = AddTask(@, d, Strip(new_task))])
        ELSE w1

Add(d, new_task, query_ok) ==
    LET before == Entered(World, query_ok).ss.project.tasks
    IN  /\ AppShown(World)
        /\ Step(AddRun(World, d, new_task, query_ok),
                IF Strip(new_task) # <<>> THEN Event("add", d, NewId(before))
                ELSE Event("add_blank", d, 0))
        /\ undo' = IF Strip(new_task) # <<>> THEN <<before>> ELSE <<>>

\* lines 775-777: the run of Remove on the k-th task of day d
RemoveRun(w, d, k, query_ok) ==
    LET w1 == Entered(w, query_ok)
    IN  save_session([w1 EXCEPT !.ss.project.tasks =
                         RemoveTask(@, d, w1.ss.project.tasks[d][k].id)])

Remove(d, k, query_ok) ==
    LET before == Entered(World, query_ok).ss.project.tasks
    IN  /\ AppShown(World)
        /\ k \in 1..Len(before[d])
        /\ Step(RemoveRun(World, d, k, query_ok), Event("remove", d, before[d][k].id))
        /\ undo' = IF ev = Event("add", d, before[d][k].id) THEN undo ELSE <<>>

\* ToggleRun that also saves the draft to the history
ToggleRun_Snapshot(w, d, k, query_ok) ==
    LET w1 == Entered(w, query_ok)
    IN  save_session(save_project_to_history(
            [w1 EXCEPT !.ss.project.tasks = ToggleTask(@, d, k)], TRUE))

\* lines 760-763: the run in which the checkbox of the k-th task of day d
\* was flipped
ToggleRun(w, d, k, query_ok) ==
    LET w1 == Entered(w, query_ok)
    IN  save_session([w1 EXCEPT !.ss.project.tasks = ToggleTask(@, d, k)])

Toggle(d, k, query_ok) ==
    LET before == Entered(World, query_ok).ss.project.tasks
    IN  /\ AppShown(World)
        /\ k \in 1..Len(before[d])
        /\ Step(ToggleRun(World, d, k, query_ok), Event("toggle", d, before[d][k].id))
        /\ undo' = <<>>

\* lines 764-767: the run in which the text input of the k-th task of day d
\* was changed to new_text
EditTextRun(w, d, k, new_text, query_ok) ==
    LET w1 == Entered(w, query_ok)
    IN  save_session([w1 EXCEPT !.ss.project.tasks = EditTaskText(@, d, k, new_text)])

EditText(d, k, new_text, query_ok) ==
    LET before == Entered(World, query_ok).ss.project.tasks
    IN  /\ AppShown(World)
        /\ k \in 1..Len(before[d])
        /\ new_text # before[d][k].text
        /\ Step(EditTextRun(World, d, k, new_text, query_ok),
                Event("edit", d, before[d][k].id))
        /\ undo' = <<>>

\* RegenerateRun that empties the day when the collaborator fails
RegenerateRun_ClearOnFailure(w, d, ai, query_ok) ==
    LET w1 == Entered(w, query_ok)
        r == ask_daybot_for_day_update(ai)
    IN  save_session([w1 EXCEPT !.ss.project.tasks =
                         RegenerateDay(@, d, IF r.ok THEN ReplyLines(r.resp) ELSE <<>>)])

\* lines 790-803: the run of Regenerate Day on day d, the collaborator
\* behaving as ai
RegenerateRun(w, d, ai, query_ok) ==
    LET w1 == Entered(w, query_ok)
        r == ask_daybot_for_day_update(ai)
    IN  IF r.ok
        THEN save_session([w1 EXCEPT !.ss.project.tasks =
                              RegenerateDay(@, d, ReplyLines(r.resp))])
        ELSE w1

Regenerate(d, ai, query_ok) ==
    LET before == Entered(World, query_ok).ss.project.tasks
    IN  /\ AppShown(World)
        /\ Step(RegenerateRun(World, d, ai, query_ok),
                IF ask_daybot_for_day_update(ai).ok
                THEN Event("regen", d, NewId(before))
                ELSE Event("regen_failed", d, 0))
        /\ undo' = <<>>

\* lines 804-806: the run of Clear Day on day d
ClearRun(w, d, query_ok) ==
    LET w1 == Entered(w, query_ok)
    IN  save_session([w1 EXCEPT !.ss.project.tasks = ClearDay(@, d)])

Clear(d, query_ok) ==
    /\ AppShown(World)
    /\ Step(ClearRun(World, d, query_ok), Event("clear", d, 0))
    /\ undo' = <<>>

(***************************************************************************)
(* Plan generation and the project history                                 *)
(***************************************************************************)
\* lines 470-473: the text mock_generate_plan builds, the same for every
\* title and constraints
MockPlanText ==
    Concat([i \in Days |->
        DayToken(i)
        \o <<":", " ", "F", "o", "c", "u", "s", " ", "o", "n", " ", "p", "a", "r", "t", " ">>
        \o <<DigitChar(i)>>
        \o <<NL, "-", " ", "T", "a", "s", "k", "s", ":", NL,
             " ", " ", "1", ")", " ", "D", "o", " ", "s", "t", "e", "p", " ", "A", " ", "-", " ", "1", "h", NL,
             " ", " ", "2", ")", " ", "D", "o", " ", "s", "t", "e", "p", " ", "B", " ", "-", " ", "2", "h", NL,
             NL>>])

\* mock_generate_plan, lines 469-473
mock_generate_plan(title, constraints) == MockPlanText

\* parse_plan_to_tasks(MockPlanText), computed once
MockPlanParsed == parse_plan_to_tasks(MockPlanText)

\* line 744: parse_plan_to_tasks(plan_text) at the Generate handler
ParsePlan(plan_text) ==
    IF plan_text = MockPlanText THEN MockPlanParsed ELSE parse_plan_to_tasks(plan_text)

\* generate_8day_plan that does not record the error of a failed call
generate_8day_plan_Silent(w, title, constraints, ai) ==
    IF ~call_ai(ai).ok
    THEN [text |-> mock_generate_plan(title, constraints), w |-> w]
    ELSE [text |-> call_ai(ai).text, w |-> w]

\* generate_8day_plan, lines 475-482: the text returned, and the world after
\* the call
generate_8day_plan(w, title, constraints, ai) ==
    IF ~call_ai(ai).ok
    THEN [text |-> mock_generate_plan(title, constraints),
          w |-> [w EXCEPT !.ss.last_ai_error = call_ai(ai).error]]
    ELSE [text |-> call_ai(ai).text, w |-> w]

\* GenerateRun that tests the title without stripping it
GenerateRun_BlankTitle(w, title, constraints, ai, insert_ok, query_ok) ==
    LET w1 == Entered(w, query_ok)
        w2 == [w1 EXCEPT !.ss.project.title = Strip(title),
                         !.ss.project.constraints = Strip(constraints)]
        g  == generate_8day_plan(w2, Strip(title), Strip(constraints), ai)
        w3 == [g.w EXCEPT !.ss.project.raw_plan = g.text,
                          !.ss.project.generated_at = w.now]
        parsed == ParsePlan(g.text)
        w4 == [w3 EXCEPT !.ss.project.tasks = parsed.value]
    IN  IF title = <<>> THEN w1
        ELSE IF parsed.raised THEN w3
        ELSE save_session(save_project_to_history(w4, insert_ok))

\* GenerateRun without line 738: the title typed is not stored in the draft
GenerateRun_TitleNotStored(w, title, constraints, ai, insert_ok, query_ok) ==
    LET w1 == Entered(w, query_ok)
        g  == generate_8day_plan(w1, Strip(title), Strip(constraints), ai)
        w3 == [g.w EXCEPT !.ss.project.raw_plan = g.text,
                          !.ss.project.generated_at = w.now]
        parsed == ParsePlan(g.text)
    IN  IF Strip(title) = <<>> THEN w1
        ELSE IF parsed.raised THEN w3
        ELSE save_session(save_project_to_history(
                              [w3 EXCEPT !.ss.project.tasks = parsed.value], insert_ok))

\* lines 734-747: the run of Generate 8-day Plan with title and constraints
\* typed.  When parse_plan_to_tasks raises, the run ends at line 744.
GenerateRun(w, title, constraints, ai, insert_ok, query_ok) ==
    LET w1 == Entered(w, query_ok)
        w2 == [w1 EXCEPT !.ss.project.title = Strip(title),
                         !.ss.project.constraints = Strip(constraints)]
        g  == generate_8day_plan(w2, Strip(title), Strip(constraints), ai)
        w3 == [g.w EXCEPT !.ss.project.raw_plan = g.text,
                          !.ss.project.generated_at = w.now]
        parsed == ParsePlan(g.text)
        w4 == [w3 EXCEPT !.ss.project.tasks = parsed.value]
    IN  IF Strip(title) = <<>> THEN w1
        ELSE IF parsed.raised THEN w3
        ELSE save_session(save_project_to_history(w4, insert_ok))

\* how the run of Generate ended
GenerateOutcome(title, ai) ==
    IF Strip(title) = <<>> THEN "generate_no_title"
    ELSE IF ~call_ai(ai).ok THEN "generate_fallback"
    ELSE IF ParsePlan(call_ai(ai).text).raised THEN "generate_raised"
    ELSE "generate_ok"

Generate(title, constraints, ai, insert_ok, query_ok) ==
    /\ AppShown(World)
    /\ Step(GenerateRun(World, title, constraints, ai, insert_ok, query_ok),
            Event(GenerateOutcome(title, ai), 0, 0))
    /\ undo' = <<>>

\* lines 811-813: the run of Save Project
SaveProjectRun(w, insert_ok, query_ok) ==
    save_project_to_history(Entered(w, query_ok), insert_ok)

SaveProject(insert_ok, query_ok) ==
    /\ AppShown(World)
    /\ Step(SaveProjectRun(World, insert_ok, query_ok), Event("save", 0, 0))
    /\ undo' = <<>>

\* lines 817-821: the text Export TXT builds from the tasks of the draft
ExportTxt(tasks) ==
    Concat([i \in 1..Len(tasks) |->
        DayToken(i) \o <<":", NL>>
        \o Concat([k \in 1..Len(tasks[i]) |-> <<"-", " ">> \o tasks[i][k].text \o <<NL>>])
        \o <<NL>>])

(***************************************************************************)
(* Home tab and sidebar                                                    *)
(***************************************************************************)
\* redirect_to, lines 431-434, as every call after line 431 finds it
redirect_to(w, tab_name) == save_session([w EXCEPT !.ss.active_tab = tab_name])

\* redirect_to, lines 220-221, as the calls of lines 240-281 find it
redirect_to_first(w, page) == [w EXCEPT !.ss.active_tab = page]

\* lines 654-656: the run in which the radio of the sidebar was set to tab
NavigateRun(w, tab, query_ok) ==
    save_session([LoadDraft(Loaded(w), query_ok) EXCEPT !.ss.active_tab = tab])

Navigate(tab, query_ok) ==
    /\ AppShown(World)
    /\ tab # Entered(World, query_ok).ss.active_tab
    /\ Step(NavigateRun(World, tab, query_ok), Event("navigate", 0, 0))
    /\ undo' = <<>>

\* lines 698-699 and 824-825: Open Planner (tab "Planner", shown for a draft
\* with a title) and Open Chat (tab "Chat")
OpenTabRun(w, tab, query_ok) == redirect_to(Entered(w, query_ok), tab)

OpenTab(tab, query_ok) ==
    /\ AppShown(World)
    /\ tab \in {"Planner", "Chat"}
    /\ tab = "Planner" => Entered(World, query_ok).ss.project.title # <<>>
    /\ Step(OpenTabRun(World, tab, query_ok), Event("open_tab", 0, 0))
    /\ undo' = <<>>

\* lines 702-706: Start Planning, shown for a draft without title
StartPlanningRun(w, query_ok) ==
    redirect_to(save_session([Entered(w, query_ok) EXCEPT !.ss.project = EmptyProject]),
                "Planner")

StartPlanning(query_ok) ==
    /\ AppShown(World)
    /\ Entered(World, query_ok).ss.project.title = <<>>
    /\ Step(StartPlanningRun(World, query_ok), Event("start_planning", 0, 0))
    /\ undo' = <<>>

\* lines 663-674: Logout of the sidebar
SidebarLogoutRun(w, query_ok) ==
    save_session([LoadDraft(Loaded(w), query_ok) EXCEPT !.ss.user = None,
                                                        !.ss.active_tab = "Home"])

SidebarLogout(query_ok) ==
    /\ AppShown(World)
    /\ Step(SidebarLogoutRun(World, query_ok), Event("logout_sidebar", 0, 0))
    /\ undo' = <<>>

\* lines 708-724: Logout of the Home tab
HomeLogoutRun(w, query_ok) ==
    save_session([Entered(w, query_ok) EXCEPT !.ss.user = None, !.ss.user_email = None])

HomeLogout(query_ok) ==
    /\ AppShown(World)
    /\ Step(HomeLogoutRun(World, query_ok), Event("logout_home", 0, 0))
    /\ undo' = <<>>

(***************************************************************************)
(* The first navigation block, lines 219-310, run before the app           *)
(***************************************************************************)
\* the rest of a script run after a handler of lines 231-310 left world w:
\* the login screen for no user; else render_app_ui, whose sidebar raises
\* ValueError for a tab that is not one of the four, and else sets the tab
\* and saves the session (lines 654-656)
AfterFirstRouter(w, query_ok) ==
    IF w.ss.user = None THEN w
    ELSE IF LoadDraft(w, query_ok).ss.active_tab \notin Tabs THEN LoadDraft(w, query_ok)
    ELSE save_session(LoadDraft(w, query_ok))

\* line 300: the router shows the sidebar and a page of the first block
FirstPagesShown(w) == Loaded(w).ss.active_tab \notin {"Login", "Signup"}

\* lines 280-281: Generate Project of show_home
FirstGenerateProjectRun(w, query_ok) ==
    AfterFirstRouter(redirect_to_first(Loaded(w), "Planner"), query_ok)

FirstGenerateProject(query_ok) ==
    /\ FirstPagesShown(World)
    /\ Step(FirstGenerateProjectRun(World, query_ok), Event("first_generate_project", 0, 0))
    /\ undo' = <<>>

\* lines 238-240: Logout of sidebar()
FirstLogoutRun(w, query_ok) ==
    AfterFirstRouter(redirect_to_first([Loaded(w) EXCEPT !.ss.username = None], "Login"),
                     query_ok)

FirstLogout(query_ok) ==
    /\ FirstPagesShown(World)
    /\ Step(FirstLogoutRun(World, query_ok),
            Event(IF LoggedIn(Loaded(World)) THEN "first_logout_raised" ELSE "first_logout",
                  0, 0))
    /\ undo' = <<>>

\* load_users, lines 194-196: json.load without a handler, which raises on a
\* file that does not parse
load_users(file) ==
    [raised |-> ~file.valid, value |-> IF file.valid THEN file.data ELSE EmptyObject]

\* the names typed into show_login and show_signup
FirstNames == {"ann", "ann@x"}

\* lines 211-217, 249-254 and 296-297: Login of show_login with username and
\* password typed.  The run ends at line 195 when load_users raises; a
\* missing key of an account reads as None.
FirstLogin(username, password, query_ok) ==
    LET w1 == Loaded(World)
        users == load_users(w1.users_file)
        ok == /\ username \in DOMAIN users.value
              /\ users.value[username].password = password
    IN  /\ w1.ss.active_tab = "Login"
        /\ Step(IF users.raised THEN w1
                ELSE IF ~ok THEN AfterFirstRouter(w1, query_ok)
                ELSE AfterFirstRouter(
                         redirect_to_first([w1 EXCEPT !.ss.username = username], "Home"),
                         query_ok),
                Event(IF users.raised THEN "first_login_unreadable" ELSE "first_login", 0, 0))
        /\ undo' = <<>>

\* lines 258-259: Sign Up of show_login
FirstOpenSignup(query_ok) ==
    /\ Loaded(World).ss.active_tab = "Login"
    /\ Step(AfterFirstRouter(redirect_to_first(Loaded(World), "Signup"), query_ok),
            Event("first_open_signup", 0, 0))
    /\ undo' = <<>>

\* lines 203-209, 266-272 and 298-299: Sign Up of show_signup with username
\* and password typed; save_users writes {"password": password} under the
\* name, an account without the keys username, email and created_at
FirstSignUp(username, password, query_ok) ==
    LET w1 == Loaded(World)
        users == load_users(w1.users_file)
        added == [k \in DOMAIN users.value \cup {username} |->
                    IF k = username
                    THEN [username |-> None, password |-> password,
                          created_at |-> NoTime, email |-> None]
                    ELSE users.value[k]]
    IN  /\ w1.ss.active_tab = "Signup"
        /\ Step(IF users.raised THEN w1
                ELSE IF username \in DOMAIN users.value THEN AfterFirstRouter(w1, query_ok)
                ELSE AfterFirstRouter(
                         redirect_to_first([w1 EXCEPT !.users_file = write_json(added)],
                                           "Login"),
                         query_ok),
                Event(IF users.raised THEN "first_sign_up_unreadable" ELSE "first_sign_up",
                      0, 0))
        /\ undo' = <<>>

(***************************************************************************)
(* Login screen, without Supabase (lines 558-577 and 588-642)              *)
(***************************************************************************)
\* the accounts people sign up with, and the passwords they type
Accounts == {[username |-> "ann", email |-> "ann@x"], [username |-> "bob", email |-> "bob@x"]}
Passwords == {"pw", "bad"}

\* lines 572-575 and 635-638: the session becomes that of user
LogIn(w, username, email) ==
    save_session([w EXCEPT !.ss.user = username, !.ss.user_email = email,
                           !.ss.login_expires = w.now + 1])

\* lines 616-641: the run of Sign Up with name, email and password typed.
\* With Supabase configured line 621 calls supa_sign_up, which is not
\* defined: NameError ends the run.
SignUpRun(w, acct, pwd) ==
    LET w1 == Loaded(w)
        users == read_json(w1.users_file, EmptyObject)
        added == [k \in DOMAIN users \cup {acct.email} |->
                    IF k = acct.email
                    THEN [username |-> acct.username, password |-> pwd,
                          created_at |-> w.now, email |-> acct.email]
                    ELSE users[k]]
    IN  IF w.SUPABASE_CONFIGURED \/ acct.email \in DOMAIN users THEN w1
        ELSE redirect_to(LogIn([w1 EXCEPT !.users_file = write_json(added)],
                               acct.username, acct.email),
                         "Home")

SignUp(acct, pwd) ==
    /\ ~LoggedIn(World)
    /\ Step(SignUpRun(World, acct, pwd),
            Event(IF SUPABASE_CONFIGURED THEN "sign_up_raised" ELSE "sign_up", 0, 0))
    /\ undo' = <<>>

\* lines 567-577, login_user: the keys of the accounts that match
Matches(users, username_or_email, password) ==
    {k \in DOMAIN users :
        /\ \/ users[k].email = username_or_email
           \/ k = username_or_email
           \/ users[k].username = username_or_email
        /\ users[k].password = password}

\* lines 595-610: the run of Login with email and password typed.  With
\* Supabase configured line 597 calls supa_sign_in, which is not defined.
\* The keys of users.json are emails, so at most one account matches.
LoginRun(w, email, pwd) ==
    LET w1 == Loaded(w)
        users == read_json(w1.users_file, EmptyObject)
        found == Matches(users, email, pwd)
        key == CHOOSE k \in found : TRUE
    IN  IF w.SUPABASE_CONFIGURED \/ found = {} THEN w1
        ELSE redirect_to(LogIn(w1,
                               IF users[key].username # None THEN users[key].username ELSE key,
                               IF users[key].email # None THEN users[key].email ELSE key),
                         "Home")

Login(email, pwd) ==
    /\ ~LoggedIn(World)
    /\ Step(LoginRun(World, email, pwd),
            Event(IF SUPABASE_CONFIGURED THEN "login_raised" ELSE "login", 0, 0))
    /\ undo' = <<>>

(***************************************************************************)
(* Chat tab                                                                *)
(***************************************************************************)
\* line 874: the text shown when DayBot is unavailable; its dash, a character
\* outside ASCII, is written "-" here
SendUnavailable ==
    <<"D", "a", "y", "B", "o", "t", " ", "i", "s", " ", "u", "n", "a", "v", "a", "i", "l",
      "a", "b", "l", "e", " ", "-", " ", "t", "r", "y", " ", "a", "g", "a", "i", "n", " ",
      "l", "a", "t", "e", "r", ".">>

Message(role, text, t) == [role |-> role, text |-> text, time |-> t]

\* lines 861-878: the run of Send with user_msg typed
SendRun(w, user_msg, ai, query_ok) ==
    LET w1 == Entered(w, query_ok)
        w2 == [w1 EXCEPT !.ss.chat_history = Append(@, Message("user", Strip(user_msg), w.now))]
        r == call_ai(ai)
    IN  IF Strip(user_msg) = <<>> THEN w1
        ELSE IF ~r.ok
        THEN save_session([w2 EXCEPT
                 !.ss.chat_history = Append(@, Message("DayBot", SendUnavailable, w.now)),
                 !.ss.last_ai_error = r.error])
        ELSE save_session([w2 EXCEPT
                 !.ss.chat_history = Append(@, Message("DayBot", r.text, w.now))])

Send(user_msg, ai, query_ok) ==
    /\ AppShown(World)
    /\ Step(SendRun(World, user_msg, ai, query_ok),
            Event(IF Strip(user_msg) = <<>> THEN "send_blank"
                  ELSE IF call_ai(ai).ok THEN "send_ok" ELSE "send_failed", 0, 0))
    /\ undo' = <<>>

\* ImportTasks with each new id taken from the ids of the day alone
RECURSIVE ImportTasks_DayLocalId(_, _, _)
ImportTasks_DayLocalId(tasks, parsed, i) ==
    IF i > NumDays THEN tasks
    ELSE IF parsed[i] = <<>> THEN ImportTasks_DayLocalId(tasks, parsed, i + 1)
    ELSE ImportTasks_DayLocalId(AddTask_DayLocalId(tasks, i, Head(parsed[i]).text),
                                [parsed EXCEPT ![i] = Tail(@)], i)

\* lines 884-888: the imported tasks of the days from day i on are appended,
\* each with the id that is the maximum of the draft at that moment plus one
RECURSIVE ImportTasks(_, _, _)
ImportTasks(tasks, parsed, i) ==
    IF i > NumDays THEN tasks
    ELSE IF parsed[i] = <<>> THEN ImportTasks(tasks, parsed, i + 1)
    ELSE ImportTasks([tasks EXCEPT ![i] = Append(@, [id |-> NewId(tasks),
                                                     text |-> Head(parsed[i]).text,
                                                     done |-> FALSE])],
                     [parsed EXCEPT ![i] = Tail(@)], i)

\* lines 880-882: the Import button is shown
ImportShown(w) ==
    /\ w.ss.chat_history # <<>>
    /\ w.ss.chat_history[Len(w.ss.chat_history)].role = "DayBot"
    /\ Contains(w.ss.chat_history[Len(w.ss.chat_history)].text, <<"D", "a", "y">>)

\* lines 882-890: the run of Import last DayBot reply into tasks.  When
\* parse_plan_to_tasks raises, the run ends at line 883.
ImportRun(w, query_ok) ==
    LET w1 == Entered(w, query_ok)
        parsed == parse_plan_to_tasks(w1.ss.chat_history[Len(w1.ss.chat_history)].text)
    IN  IF parsed.raised THEN w1
        ELSE save_session([w1 EXCEPT !.ss.project.tasks = ImportTasks(@, parsed.value, 1)])

Import(query_ok) ==
    /\ AppShown(World)
    /\ ImportShown(Entered(World, query_ok))
    /\ Step(ImportRun(World, query_ok),
            Event(IF ImportRun(World, query_ok) = Entered(World, query_ok)
                     /\ parse_plan_to_tasks(
                            Entered(World, query_ok).ss.chat_history[
                                Len(Entered(World, query_ok).ss.chat_history)].text).raised
                  THEN "import_raised" ELSE "import", 0, 0))
    /\ undo' = <<>>

(***************************************************************************)
(* Ask DayBot (lines 769-774) and the automatic call of the Chat tab       *)
(* (lines 833-848).  st.tabs draws every tab in every run, so the block of *)
(* the Chat tab runs after the handlers of the Planner tab, in the run of  *)
(* the click itself.  At the end of every run of the model chat_pref is    *)
(* None or chat_pref_processed is set (C27 checks it), so the block does   *)
(* nothing in the runs of the other handlers.                              *)
(***************************************************************************)
\* line 843: the text shown when the automatic call failed; its dash, a
\* character outside ASCII, is written "-" here
AskUnavailable ==
    <<"D", "a", "y", "B", "o", "t", " ", "u", "n", "a", "v", "a", "i", "l", "a", "b",
      "l", "e", " ", "-", " ", "t", "r", "y", " ", "a", "g", "a", "i", "n", " ", "l",
      "a", "t", "e", "r", ".">>

\* line 846: the prefix of the user message of the automatic call
ImproveTask ==
    <<"I", "m", "p", "r", "o", "v", "e", " ", "t", "a", "s", "k", ":", " ">>

\* the block of the Chat tab without line 847: chat_pref_processed stays false
ChatAutoAsk_Unprocessed(w, ai) ==
    LET r == call_ai(ai)
    IN  IF w.ss.chat_pref # <<>> /\ ~w.ss.chat_pref_processed
        THEN save_session([w EXCEPT
                 !.ss.chat_history =
                     IF r.ok
                     THEN @ \o <<Message("user", ImproveTask \o w.ss.chat_pref[1].task_text,
                                         w.now),
                                 Message("DayBot", r.text, w.now)>>
                     ELSE Append(@, Message("DayBot", AskUnavailable, w.now))])
        ELSE w

\* lines 833-848: the block of the Chat tab, the collaborator behaving as ai
ChatAutoAsk(w, ai) ==
    LET r == call_ai(ai)
        failed == [w EXCEPT
                     !.ss.chat_history = Append(@, Message("DayBot", AskUnavailable, w.now)),
                     !.ss.last_ai_error = r.error]
        answered == [w EXCEPT
                       !.ss.chat_history =
                           @ \o <<Message("user", ImproveTask \o w.ss.chat_pref[1].task_text,
                                          w.now),
                                  Message("DayBot", r.text, w.now)>>]
    IN  IF w.ss.chat_pref # <<>> /\ ~w.ss.chat_pref_processed
        THEN save_session([(IF r.ok THEN answered ELSE failed) EXCEPT
                              !.ss.chat_pref_processed = TRUE])
        ELSE w

\* lines 769-774 and 833-848: the run of Ask DayBot on the k-th task of day
\* d; chat_pref holds the day as the model counts it (d, the code's d + 1)
AskDayBotRun(w, d, k, ai, query_ok) ==
    LET w1 == Entered(w, query_ok)
        pref == [day |-> d, task_text |-> w1.ss.project.tasks[d][k].text,
                 project_title |-> w1.ss.project.title]
    IN  ChatAutoAsk(redirect_to(save_session([w1 EXCEPT !.ss.chat_pref = <<pref>>,
                                                         !.ss.chat_pref_processed = FALSE]),
                                "Chat"),
                    ai)

AskDayBot(d, k, ai, query_ok) ==
    LET before == Entered(World, query_ok).ss.project.tasks
    IN  /\ AppShown(World)
        /\ k \in 1..Len(before[d])
        /\ Step(AskDayBotRun(World, d, k, ai, query_ok),
                Event(IF call_ai(ai).ok THEN "ask_ok" ELSE "ask_failed", d, before[d][k].id))
        /\ undo' = <<>>

\* line 859: the run in which the Context selectbox of the Chat tab was
\* changed, a widget without a handler: the sidebar and the block of the
\* Chat tab run
ChatRerun(ai, query_ok) ==
    /\ AppShown(World)
    /\ Step(ChatAutoAsk(Entered(World, query_ok), ai), Event("rerun", 0, 0))
    /\ undo' = <<>>

(***************************************************************************)
(* Feed tab (lines 382-426, 500-507 and 893-918)                           *)
(***************************************************************************)
\* lines 387, 504 and 507: the first fixed suggestion; its dash, a character
\* outside ASCII, is written "-" here
KeepGoing ==
    <<"K", "e", "e", "p", " ", "g", "o", "i", "n", "g", " ", "-", " ", "s", "m", "a",
      "l", "l", " ", "s", "t", "e", "p", "s", " ", "b", "u", "i", "l", "d", " ", "m",
      "o", "m", "e", "n", "t", "u", "m", ".">>

\* line 387: the suggestions of a post when the collaborator failed
PostFallbackSuggestions ==
    <<KeepGoing,
     <<"R", "e", "v", "i", "e", "w", " ", "w", "h", "a", "t", " ", "w", "o", "r", "k",
     "e", "d", ".">>,
     <<"P", "l", "a", "n", " ", "o", "n", "e", " ", "s", "m", "a", "l", "l", " ", "w",
     "i", "n", " ", "t", "o", "m", "o", "r", "r", "o", "w", ".">>>>

\* line 504: the suggestions ai_suggest_next_steps_from_post returns with a
\* failure
SuggestFallback ==
    <<KeepGoing,
     <<"R", "e", "v", "i", "e", "w", " ", "w", "h", "a", "t", " ", "w", "o", "r", "k",
     "e", "d", " ", "t", "o", "d", "a", "y", ".">>,
     <<"P", "r", "i", "o", "r", "i", "t", "i", "z", "e", " ", "o", "n", "e", " ", "s",
     "m", "a", "l", "l", " ", "w", "i", "n", " ", "t", "o", "m", "o", "r", "r", "o",
     "w", ".">>>>

\* line 507: lines[:3]
MaxSuggestions == 3

\* ai_suggest_next_steps_from_post, lines 500-507: [ok, suggestions]
ai_suggest_next_steps_from_post(ai) ==
    LET r == call_ai(ai)
        lines == ReplyLines(r.text)
    IN  IF ~r.ok
        THEN [ok |-> FALSE,
              suggestions |-> SuggestFallback]
        ELSE [ok |-> TRUE,
              suggestions |-> IF lines # <<>>
                              THEN SubSeq(lines, 1, Min({Len(lines), MaxSuggestions}))
                              ELSE <<KeepGoing>>]

\* add_feed_post_supabase, lines 382-405: the world after the post of text
\* by user; insert_ok says whether the Supabase insert returns
add_feed_post_supabase(w, user, text, ai, insert_ok) ==
    LET s == ai_suggest_next_steps_from_post(ai)
        suggestions == IF s.ok THEN s.suggestions
                       ELSE PostFallbackSuggestions
        entry == [user |-> user, text |-> text, time |-> w.now, suggestions |-> suggestions]
    IN  IF w.SUPABASE_CONFIGURED /\ w.ss.user_email # None /\ insert_ok
        THEN [w EXCEPT !.supa_feed =
                Append(@, [user_email |-> w.ss.user_email, text |-> text,
                           suggestions |-> suggestions, created_at |-> w.now])]
        ELSE [w EXCEPT !.feed_file = write_json(<<entry>> \o read_json(w.feed_file, <<>>))]

\* read_feed_for_user, lines 407-426: the entries shown, newest first;
\* query_ok says whether the Supabase query returns
read_feed_for_user(w, query_ok) ==
    IF w.SUPABASE_CONFIGURED /\ query_ok
    THEN [k \in 1..Len(w.supa_feed) |->
            LET e == w.supa_feed[Len(w.supa_feed) + 1 - k]
            IN  [user |-> e.user_email, text |-> e.text, time |-> e.created_at,
                 suggestions |-> e.suggestions]]
    ELSE read_json(w.feed_file, <<>>)

\* lines 898-905: the run of Post update with post_text typed
PostRun(w, post_text, ai, insert_ok, query_ok) ==
    LET w1 == Entered(w, query_ok)
    IN  IF Strip(post_text) = <<>> THEN w1
        ELSE save_session(add_feed_post_supabase(w1, w1.ss.user, Strip(post_text), ai,
                                                 insert_ok))

Post(post_text, ai, insert_ok, query_ok) ==
    /\ AppShown(World)
    /\ Step(PostRun(World, post_text, ai, insert_ok, query_ok),
            Event(IF Strip(post_text) = <<>> THEN "post_blank" ELSE "post", 0, 0))
    /\ undo' = <<>>

(***************************************************************************)
(* A new process                                                           *)
(***************************************************************************)
\* The server is started again, with Supabase configured or not (lines
\* 42-44 read the environment), and the browser opens a new session: lines
\* 128-143 give every key its default.  The files stay.
RestartWorld(w, supabase) ==
    [w EXCEPT !.ss = InitialSession, !.SUPABASE_CONFIGURED = supabase]

Restart(supabase) ==
    /\ ss' = RestartWorld(World, supabase).ss
    /\ SUPABASE_CONFIGURED' = RestartWorld(World, supabase).SUPABASE_CONFIGURED
    /\ ev' = Event("restart", 0, 0)
    /\ undo' = <<>>
    /\ UNCHANGED <<session_file, projects_file, users_file, supa_projects, feed_file,
                   supa_feed, now, call, ret>>

\* lines 168 and 574: the clock datetime.utcnow() reads has advanced by one
\* unit, the 24 hours a login lasts; nothing else has changed
ClockAdvances ==
    /\ now' = now + 1
    /\ UNCHANGED <<ss, session_file, projects_file, users_file, supa_projects, feed_file,
                   supa_feed, SUPABASE_CONFIGURED, ev, undo, events, call, ret>>

\* line 592: a run of the login screen in which text was typed into the
\* Email field and no button was clicked
LoginScreenRerun ==
    /\ ~LoggedIn(World)
    /\ Step(Loaded(World), Event("login_screen", 0, 0))
    /\ undo' = <<>>

(***************************************************************************)
(* A write that does not complete                                          *)
(***************************************************************************)
\* write_json, lines 121-123, when the run ends inside it (json.dump raises
\* OSError, or the process is stopped): open(path, "w") has emptied the file
\* and json.dump has written nothing or a part of the text.  The text of an
\* object is complete only with its last brace, so the file does not parse.
Torn == [valid |-> FALSE, data |-> EmptyObject]

\* lines 654-656: a run that ends inside the save_session of the sidebar
SessionWriteInterrupted(query_ok) ==
    /\ AppShown(World)
    /\ Step([LoadDraft(Loaded(World), query_ok) EXCEPT !.session_file = Torn],
            Event("session_write_interrupted", 0, 0))
    /\ undo' = <<>>

\* lines 558-564: a run of Sign Up that ends inside write_json(USERS_FILE, users)
UsersWriteInterrupted(acct) ==
    /\ ~LoggedIn(World)
    /\ ~SUPABASE_CONFIGURED
    /\ acct.email \notin DOMAIN read_json(users_file, EmptyObject)
    /\ Step([Loaded(World) EXCEPT !.users_file = Torn],
            Event("users_write_interrupted", 0, 0))
    /\ undo' = <<>>

\* lines 350-355 and 811-812: a run of Save Project that ends inside
\* write_json(PROJECTS_FILE, projects), on the local path of the save
ProjectsWriteInterrupted(insert_ok, query_ok) ==
    /\ AppShown(World)
    /\ ~(SUPABASE_CONFIGURED /\ Entered(World, query_ok).ss.user_email # None /\ insert_ok)
    /\ Step([Entered(World, query_ok) EXCEPT !.projects_file = Torn],
            Event("projects_write_interrupted", 0, 0))
    /\ undo' = <<>>

(***************************************************************************)
(* Specifications                                                          *)
(***************************************************************************)
\* what the user types as project title and as constraints
TitleInputs == {<<>>, <<" ">>, <<"T", " ">>}
ConstraintInputs == {<<>>}
\* what the collaborator answers to a plan request
PlanReplies ==
    { DayToken(1) \o <<":", NL, "-", " ", "a", NL>> \o DayToken(2) \o <<":", NL, "1", ")", " ", "b">>,
      <<"a", NL, "b">>,
      DayToken(2) \o <<NL, "5", NL>> }
\* what the user types into the chat, and what the collaborator answers
ChatInputs == {<<>>, <<"h", "i">>}
ChatReplies == { DayToken(1) \o <<NL, "-", " ", "c">>, <<"o", "k">> }

\* the collaborator answers text at the first attempt
Answering(text) ==
    [key |-> TRUE, has_generate_text |-> TRUE, gt |-> Answers(text), gm |-> Raises]

\* a fresh installation at time 0: the files as ensure_file writes them
\* (lines 65-73), a new session
Installed(supabase) ==
    [ss |-> InitialSession,
     session_file |-> write_json(EmptyObject),
     projects_file |-> write_json(EmptyObject),
     users_file |-> write_json(EmptyObject),
     supa_projects |-> <<>>,
     feed_file |-> write_json(<<>>),
     supa_feed |-> <<>>,
     SUPABASE_CONFIGURED |-> supabase,
     now |-> 0]

\* ann has signed up on a fresh installation: the draft is empty and
\* nothing is saved
AnnAccount == [username |-> "ann", email |-> "ann@x"]
BobAccount == [username |-> "bob", email |-> "bob@x"]
FreshWorld == SignUpRun(Installed(FALSE), AnnAccount, "pw")

\* the state is world w, before any event
StartWorld(w) ==
    /\ ss = w.ss
    /\ session_file = w.session_file
    /\ projects_file = w.projects_file
    /\ users_file = w.users_file
    /\ supa_projects = w.supa_projects
    /\ feed_file = w.feed_file
    /\ supa_feed = w.supa_feed
    /\ SUPABASE_CONFIGURED = w.SUPABASE_CONFIGURED
    /\ now = w.now
    /\ ev = NoEvent
    /\ undo = <<>>
    /\ events = 0

\* a direct call of function fn on arg; project is the project an exported
\* text was made from
Call(fn, arg, project) == [fn |-> fn, arg |-> arg, project |-> project]
NoCall == Call("none", <<>>, <<>>)

\* the app in world w, no function called on its own
StartIn(w) == StartWorld(w) /\ call = NoCall /\ ret = <<>>

\* no task of the draft has an id above MaxId
IdsBounded == \A id \in AllIds(ss.project.tasks) : id <= MaxId

----------------------------------------------------------------------------
\* SpecEdit: the task handlers of the day cards, from an empty draft or from
\* a draft just generated from a reply of the collaborator
InitEdit ==
    \E w \in {FreshWorld}
             \cup {GenerateRun(FreshWorld, <<"T">>, <<>>, Answering(t), FALSE, TRUE) :
                     t \in PlanReplies} :
        StartIn(w)

NextEdit ==
    \/ \E d \in DayInputs, t \in TaskInputs : Add(d, t, TRUE) /\ IdsBounded' /\ UNCHANGED events
    \/ \E d \in DayInputs, k \in 1..MaxId + 1 : Remove(d, k, TRUE) /\ UNCHANGED events
    \/ \E d \in DayInputs, ai \in AiBehaviours(RegenReplies) :
          Regenerate(d, ai, TRUE) /\ IdsBounded' /\ UNCHANGED events
    \/ \E d \in DayInputs : Clear(d, TRUE) /\ UNCHANGED events

SpecEdit == InitEdit /\ [][NextEdit]_vars

\* the tasks of the draft: st.session_state.project["tasks"]
Tasks == ss.project.tasks

\* C1: in every draft reached by adding, removing, regenerating and clearing,
\* no two tasks of the project, of the same day or of different days, have
\* the same id.
C1_IdsUnique ==
    \A d1 \in Days, d2 \in Days :
        \A k1 \in 1..Len(Tasks[d1]) :
            \A k2 \in 1..Len(Tasks[d2]) :
                (d1 # d2 \/ k1 # k2) => Tasks[d1][k1].id # Tasks[d2][k2].id

\* the case of C1: a regeneration has just replaced a day by several tasks
\* while another day holds tasks
C1_Witness ==
    /\ ev.op = "regen"
    /\ Len(Tasks[ev.day]) >= 2
    /\ \E d \in Days \ {ev.day} : Tasks[d] # <<>>

\* C7: removing the task that the run before has added to a day, by the id
\* the add gave it, leaves the tasks of all eight days exactly as they were
\* before the add (undo holds them).
C7_AddThenRemoveRestores ==
    (ev.op = "remove" /\ undo # <<>>) => Tasks = undo[1]

\* the case of C7: the added task was removed from a day that had tasks
\* before, and another day has tasks
C7_Witness ==
    /\ ev.op = "remove"
    /\ undo # <<>>
    /\ undo[1][ev.day] # <<>>
    /\ \E d \in Days \ {ev.day} : undo[1][d] # <<>>

----------------------------------------------------------------------------
\* Spec: the whole app from a fresh installation, every handler of the model,
\* in behaviours of at most MaxEvents script runs
MaxEvents == 3

Init == \E supabase \in BOOLEAN : StartIn(Installed(supabase))

\* one more script run, while the behaviour has fewer than MaxEvents
Counted == events < MaxEvents /\ events' = events + 1

Next ==
    \/ \E a \in Accounts, p \in Passwords : Counted /\ SignUp(a, p)
    \/ \E a \in Accounts, p \in Passwords : Counted /\ Login(a.email, p)
    \/ \E q \in QueryOutcomes : Counted /\ FirstGenerateProject(q)
    \/ \E q \in QueryOutcomes : Counted /\ FirstLogout(q)
    \/ \E q \in QueryOutcomes, n \in FirstNames, p \in Passwords : Counted /\ FirstLogin(n, p, q)
    \/ \E q \in QueryOutcomes : Counted /\ FirstOpenSignup(q)
    \/ \E q \in QueryOutcomes, n \in FirstNames, p \in Passwords : Counted /\ FirstSignUp(n, p, q)
    \/ \E q \in QueryOutcomes, tab \in Tabs : Counted /\ Navigate(tab, q)
    \/ \E q \in QueryOutcomes, tab \in Tabs : Counted /\ OpenTab(tab, q)
    \/ \E q \in QueryOutcomes : Counted /\ StartPlanning(q)
    \/ \E q \in QueryOutcomes : Counted /\ SidebarLogout(q)
    \/ \E q \in QueryOutcomes : Counted /\ HomeLogout(q)
    \/ \E q \in QueryOutcomes, t \in TitleInputs, c \in ConstraintInputs,
          ai \in AiBehaviours(PlanReplies), i \in InsertOutcomes :
          Counted /\ Generate(t, c, ai, i, q)
    \/ \E q \in QueryOutcomes, i \in InsertOutcomes : Counted /\ SaveProject(i, q)
    \/ \E q \in QueryOutcomes, d \in DayInputs, t \in TaskInputs : Counted /\ Add(d, t, q)
    \/ \E q \in QueryOutcomes, d \in DayInputs, k \in 1..MaxId : Counted /\ Remove(d, k, q)
    \/ \E q \in QueryOutcomes, d \in DayInputs, k \in 1..MaxId : Counted /\ Toggle(d, k, q)
    \/ \E q \in QueryOutcomes, d \in DayInputs, k \in 1..MaxId, t \in TaskInputs :
          Counted /\ EditText(d, k, t, q)
    \/ \E q \in QueryOutcomes, d \in DayInputs, ai \in AiBehaviours(RegenReplies) :
          Counted /\ Regenerate(d, ai, q)
    \/ \E q \in QueryOutcomes, d \in DayInputs : Counted /\ Clear(d, q)
    \/ \E q \in QueryOutcomes, m \in ChatInputs, ai \in AiBehaviours(ChatReplies) :
          Counted /\ Send(m, ai, q)
    \/ \E q \in QueryOutcomes : Counted /\ Import(q)
    \/ \E supabase \in BOOLEAN : Counted /\ Restart(supabase)
    \/ \E q \in QueryOutcomes : Counted /\ SessionWriteInterrupted(q)
    \/ \E a \in Accounts : Counted /\ UsersWriteInterrupted(a)
    \/ \E q \in QueryOutcomes, i \in InsertOutcomes : Counted /\ ProjectsWriteInterrupted(i, q)

Spec == Init /\ [][Next]_vars

\* C2: the draft has exactly eight day slots, each a sequence of tasks
\* (empty or not), in every state: after session initialisation, Start
\* Planning, generation, add, remove, regenerate, clear and chat import.
C2_EightSlots ==
    /\ Len(Tasks) = NumDays
    /\ \A d \in 1..Len(Tasks) : DOMAIN Tasks[d] = 1..Len(Tasks[d])

\* the case of C2: the chat import has appended a task to a day
C2_Witness ==
    /\ ev.op = "import"
    /\ \E d \in Days : Tasks[d] # <<>>

\* the runs that ended inside a write
InterruptedOps ==
    {"session_write_interrupted", "users_write_interrupted", "projects_write_interrupted"}

\* the runs that an exception ended
RaisedOps ==
    {"generate_raised", "first_logout_raised", "sign_up_raised", "login_raised",
     "import_raised", "first_login_unreadable", "first_sign_up_unreadable"}
    \cup InterruptedOps

\* what load_session restores in a new process from the checkpoint
Restored == load_session(InitialSession, session_file, now)

\* C3: after every run that handled a user's action to its end, the
\* checkpoint holds the active tab, the draft and the transcript of the
\* session, so that load_session in a new process restores these three.
C3_CheckpointIsCurrent ==
    (ev.op \notin RaisedOps \cup {"none", "restart"}) =>
        /\ Restored.active_tab = ss.active_tab
        /\ Restored.project = ss.project
        /\ Restored.chat_history = ss.chat_history

\* where the header of day i starts in text, 0 if it has none
HeaderAt(text, i) == Find(text, DayToken(i) \o <<":">>, 1)

\* C5: when the collaborator fails (no key, or every attempt raises), the
\* plan that generate_8day_plan returned, kept as the raw plan of the draft,
\* has the headers "Day 1:" to "Day 8:" in increasing order, and
\* last_ai_error is set.
C5_FallbackPlan ==
    ev.op = "generate_fallback" =>
        /\ \A i \in Days : HeaderAt(ss.project.raw_plan, i) # 0
        /\ \A i \in 1..NumDays - 1 :
              HeaderAt(ss.project.raw_plan, i) < HeaderAt(ss.project.raw_plan, i + 1)
        /\ ss.last_ai_error # None

\* the case of C5: both attempts at the collaborator raised during Generate
C5_Witness ==
    /\ ev.op = "generate_fallback"
    /\ ss.last_ai_error = "generate_text: e | GenerativeModel: e"

----------------------------------------------------------------------------
\* SpecHistory: saving projects, with two users and both stores in use.
\* It starts when bob has signed up, generated a plan (a snapshot in
\* projects.json), saved it again after a restart with Supabase (a row of the
\* table) and logged out after a restart without, and ann has signed up.
BobSaved ==
    SaveProjectRun(
        RestartWorld(GenerateRun(SignUpRun(Installed(FALSE), BobAccount, "pw"),
                                 <<"T">>, <<>>,
                                 Answering(DayToken(1) \o <<":", NL, "-", " ", "a">>),
                                 FALSE, TRUE),
                     TRUE),
        TRUE, TRUE)

AnnArrived == SignUpRun(HomeLogoutRun(RestartWorld(BobSaved, FALSE), TRUE), AnnAccount, "pw")

InitHistory == \E supabase \in BOOLEAN : StartIn(RestartWorld(AnnArrived, supabase))

NextHistory ==
    \/ \E q \in QueryOutcomes, i \in InsertOutcomes : Counted /\ SaveProject(i, q)
    \/ \E q \in QueryOutcomes, t \in TitleInputs, c \in ConstraintInputs,
          ai \in AiBehaviours(PlanReplies), i \in InsertOutcomes :
          Counted /\ Generate(t, c, ai, i, q)
    \/ \E q \in QueryOutcomes, d \in DayInputs, t \in TaskInputs : Counted /\ Add(d, t, q)
    \/ \E q \in QueryOutcomes : Counted /\ HomeLogout(q)
    \/ \E a \in Accounts, p \in Passwords : Counted /\ Login(a.email, p)
    \/ \E supabase \in BOOLEAN : Counted /\ Restart(supabase)

SpecHistory == InitHistory /\ [][NextHistory]_vars

\* the runs that end after save_project_to_history has returned
SaveOps == {"save", "generate_ok", "generate_fallback"}

\* the snapshots of a user in projects.json, and in the Supabase table,
\* oldest first
LocalHistory(file, key) == HistoryOf(read_json(file, EmptyObject), key)
LocalUsers(file) == DOMAIN read_json(file, EmptyObject)
SupabaseHistory(rows, email) ==
    SelectSeq(rows, LAMBDA r : r.user_email = email)

\* C4: a save (Save Project, or a generation that reached its save) appends
\* exactly one snapshot, equal to the draft, at the end of the history of
\* the user who saves, in one of the two stores; the snapshots that user had
\* before stay as and where they were, and so does every other user's
\* history.
C4_SaveAppendsOneSnapshot ==
    [][ev'.op \in SaveOps =>
          \/ /\ supa_projects' = supa_projects
             /\ LocalUsers(projects_file') = LocalUsers(projects_file) \cup {UserKey(ss')}
             /\ LocalHistory(projects_file', UserKey(ss'))
                  = Append(LocalHistory(projects_file, UserKey(ss')), ss'.project)
             /\ \A k \in LocalUsers(projects_file) \ {UserKey(ss')} :
                   LocalHistory(projects_file', k) = LocalHistory(projects_file, k)
          \/ /\ projects_file' = projects_file
             /\ Len(supa_projects') = Len(supa_projects) + 1
             /\ SubSeq(supa_projects', 1, Len(supa_projects)) = supa_projects
             /\ supa_projects'[Len(supa_projects')].user_email = ss'.user_email
             /\ supa_projects'[Len(supa_projects')].project_json = ss'.project
    ]_vars

\* the case of C4: ann has saved a second snapshot while bob has snapshots
\* in the same store
C4_Witness ==
    /\ ev.op \in SaveOps
    /\ ss.user = "ann"
    /\ \/ /\ Len(LocalHistory(projects_file, "ann@x")) >= 2
          /\ LocalHistory(projects_file, "bob@x") # <<>>
       \/ /\ Len(SupabaseHistory(supa_projects, "ann@x")) >= 2
          /\ SupabaseHistory(supa_projects, "bob@x") # <<>>

----------------------------------------------------------------------------
\* SpecCalls: parse_plan_to_tasks, plan_progress_percent and the export
\* called on their own, on every argument of a bounded set; the text of an
\* export is parsed again.
MaxLines == 3
MaxTasks == 3

\* the lines a plan text is made of
ParseLines ==
    { DayToken(1) \o <<":">>, DayToken(2) \o <<":">>, <<"-", " ", "a">>, <<"b">>, <<"5">> }

\* "\n".join of the lines, with a newline at the end
JoinLines(ls) == Concat([k \in 1..Len(ls) |-> ls[k] \o <<NL>>])

\* the sequences of at most n elements of S
SeqsUpTo(S, n) == UNION {[1..k -> S] : k \in 0..n}

ParseInputs ==
    {JoinLines(ls) : ls \in SeqsUpTo(ParseLines, MaxLines)}
    \cup {JoinLines([k \in 1..2 * NumDays |-> <<"b">>])}

\* the bullet lines of the plan texts that follow the format of the prompt
BulletLines ==
    { <<"-", " ", "a">>, <<"1", ")", " ", "b">>, <<"-", " ", "x", " ">> \o DayToken(3) }

\* the header line of day n
HeaderLine(n) == DayToken(n) \o <<":">>

\* a plan text with the eight headers in order: the first two days hold
\* these bullet lines, each later day one bullet
PlanOf(bullets1, bullets2) ==
    JoinLines(<<HeaderLine(1)>> \o bullets1 \o <<HeaderLine(2)>> \o bullets2)
    \o Concat([i \in 1..NumDays - 2 |-> JoinLines(<<HeaderLine(i + 2), <<"-", " ", "a">>>>)])

WellFormedInputs ==
    {PlanOf(b1, b2) : b1 \in SeqsUpTo(BulletLines, MaxLines - 1) \ {<<>>},
                      b2 \in SeqsUpTo(BulletLines, MaxLines - 1) \ {<<>>}}

\* the task texts of the exported projects
ExportTexts == { <<"a">>, <<"g", "o", "a", "l">>, <<"x", " ">> \o DayToken(2) }

\* a project whose first two days hold the tasks with these texts, ids as
\* the parser numbers them
ProjectOf(texts1, texts2) ==
    NumberDays(<<texts1, texts2>> \o [i \in 1..NumDays - 2 |-> <<>>], 0)

ExportInputs ==
    {ProjectOf(t1, t2) : t1 \in SeqsUpTo(ExportTexts, MaxTasks - 1),
                         t2 \in SeqsUpTo(ExportTexts, MaxTasks - 1)}

\* a task structure whose first two days hold tasks with these done flags
FlagsOf(done1, done2) ==
    [d \in Days |->
        IF d = 1 THEN [k \in 1..Len(done1) |-> [id |-> k, text |-> <<"a">>, done |-> done1[k]]]
        ELSE IF d = 2
        THEN [k \in 1..Len(done2) |->
                [id |-> Len(done1) + k, text |-> <<"a">>, done |-> done2[k]]]
        ELSE <<>>]

ProgressInputs ==
    {FlagsOf(d1, d2) : d1 \in SeqsUpTo(BOOLEAN, MaxTasks), d2 \in SeqsUpTo(BOOLEAN, MaxTasks)}

\* what the collaborator answers to a Regenerate request: one line more than
\* the handler keeps, as many as it keeps, two, and one that is only a dash
LongRegenReplies ==
    {JoinLines([k \in 1..n |-> <<"-", " ", "b">>]) : n \in {MaxRegenLines + 1, MaxRegenLines, 2}}
    \cup {<<"-", " ", "a", NL, "-">>}

\* what one calling convention of the collaborator does: it raises, or it
\* answers with no text, with blank text or with text
CollaboratorReplies == {Raises, Answers(<<>>), Answers(<<" ">>), Answers(<<"o", "k">>)}

\* the collaborator as a call of call_ai finds it
CollaboratorInputs ==
    [key : BOOLEAN, has_generate_text : BOOLEAN,
     gt : CollaboratorReplies, gm : CollaboratorReplies]

InitCalls ==
    /\ StartWorld(Installed(FALSE))
    /\ ret = <<>>
    /\ \E c \in {Call("parse_plan_to_tasks", t, <<>>) : t \in ParseInputs \cup WellFormedInputs}
               \cup {Call("export", p, p) : p \in ExportInputs}
               \cup {Call("plan_progress_percent", p, <<>>) : p \in ProgressInputs}
               \cup {Call(fn, ai, <<>>) : fn \in {"call_ai", "generate"}, ai \in CollaboratorInputs}
               \cup {Call("regenerate", <<d, r>>, p) :
                        d \in DayInputs, r \in LongRegenReplies, p \in ExportInputs} :
           call = c

Returns(value) ==
    /\ ret = <<>>
    /\ ret' = <<value>>
    /\ UNCHANGED <<ss, session_file, projects_file, users_file, supa_projects, feed_file, supa_feed,
                   SUPABASE_CONFIGURED, now, ev, undo, events, call>>

CallParse == call.fn = "parse_plan_to_tasks" /\ Returns(parse_plan_to_tasks(call.arg))

CallProgress == call.fn = "plan_progress_percent" /\ Returns(plan_progress_percent(call.arg))

CallExport == call.fn = "export" /\ Returns(ExportTxt(call.arg))

CallAi == call.fn = "call_ai" /\ Returns(call_ai(call.arg))

\* the session state after the run of Generate 8-day Plan with title "T",
\* the collaborator behaving as call.arg
CallGenerate ==
    /\ call.fn = "generate"
    /\ Returns(GenerateRun(FreshWorld, <<"T">>, <<>>, call.arg, FALSE, TRUE).ss)

\* the tasks of the draft after the run of Regenerate Day on day call.arg[1]
\* of the draft call.project, the collaborator answering call.arg[2]
CallRegenerate ==
    /\ call.fn = "regenerate"
    /\ Returns(RegenerateRun(save_session([FreshWorld EXCEPT
                                              !.ss.project.title = <<"T">>,
                                              !.ss.project.tasks = call.project]),
                             call.arg[1], Answering(call.arg[2]), TRUE).ss.project.tasks)

\* the exported text is handed to parse_plan_to_tasks
Reparse ==
    /\ call.fn = "export"
    /\ ret # <<>>
    /\ call' = Call("parse_plan_to_tasks", ret[1], call.project)
    /\ ret' = <<>>
    /\ UNCHANGED <<ss, session_file, projects_file, users_file, supa_projects, feed_file, supa_feed,
                   SUPABASE_CONFIGURED, now, ev, undo, events>>

NextCalls ==
    \/ CallParse
    \/ CallProgress
    \/ CallExport
    \/ Reparse
    \/ CallAi
    \/ CallGenerate
    \/ CallRegenerate

SpecCalls == InitCalls /\ [][NextCalls]_vars

\* the texts of the tasks of one day
TextsOfDay(day) == [k \in 1..Len(day) |-> day[k].text]

\* the number of tasks of a task structure, and of those that are done
Places(tasks_lists) ==
    {<<d, k>> \in (1..Len(tasks_lists)) \X (1..MaxTasks + 1) : k <= Len(tasks_lists[d])}
DonePlaces(tasks_lists) == {p \in Places(tasks_lists) : tasks_lists[p[1]][p[2]].done}

\* C6: plan_progress_percent returns the floor of done*100/total, total the
\* number of tasks of the eight days and done the number of those with done
\* set; the result is an integer from 0 to 100, and 0 when there is no task.
C6_ProgressIsFloor ==
    (call.fn = "plan_progress_percent" /\ ret # <<>>) =>
        LET total == Cardinality(Places(call.arg))
            done == Cardinality(DonePlaces(call.arg))
        IN  /\ ret[1] \in 0..100
            /\ total = 0 => ret[1] = 0
            /\ total > 0 => /\ ret[1] * total <= done * 100
                            /\ done * 100 < (ret[1] + 1) * total

\* the case of C6: two of three tasks are done, over two days, and the
\* quotient 66.67 was cut to 66
C6_Witness ==
    /\ call.fn = "plan_progress_percent"
    /\ ret = <<66>>
    /\ call.arg[1] # <<>>
    /\ call.arg[2] # <<>>

\* C8: parsing the text exported from a project gives, for each of the
\* eight days, the texts of the tasks of that day of the project, in order.
C8_ExportParseRoundTrip ==
    (call.fn = "parse_plan_to_tasks" /\ call.project # <<>> /\ ret # <<>>) =>
        /\ ~ret[1].raised
        /\ \A d \in Days : TextsOfDay(ret[1].value[d]) = TextsOfDay(call.project[d])

\* where "Day i" first occurs in text, 0 if nowhere
TokenAt(text, i) == Find(text, DayToken(i), 1)

\* some day's token comes before the token of a day with a smaller number
OutOfOrder(text) ==
    \E i \in Days, j \in Days :
        i < j /\ TokenAt(text, j) # 0 /\ TokenAt(text, j) < TokenAt(text, i)

\* the segment of a found day i that ends at the next found token in text
\* order, or at the end of the text
SegmentInTextOrder(text, i) ==
    LET later == {TokenAt(text, j) : j \in Days} \cap (TokenAt(text, i) + 1..Len(text))
    IN  SubSeq(text, TokenAt(text, i), IF later = {} THEN Len(text) ELSE Min(later) - 1)

\* C9: for a plan text with Day tokens out of numeric order, the tasks of
\* each found day are those of the lines from that day's token up to the next
\* found token in text order (or the end of the text), so that no line gives
\* a task to two days (stated of the calls that return).
C9_SegmentsInTextOrder ==
    (call.fn = "parse_plan_to_tasks" /\ ret # <<>> /\ OutOfOrder(call.arg)) =>
        (~ret[1].raised =>
            \A i \in Days :
                TokenAt(call.arg, i) # 0 =>
                    TextsOfDay(ret[1].value[i])
                      = SegmentTexts(Strip(SegmentInTextOrder(call.arg, i))))

\* the stripped non-blank lines of text
NonBlankLines(text) ==
    LET ls == [k \in 1..Len(SplitLines(text)) |-> Strip(SplitLines(text)[k])]
    IN  SelectSeq(ls, LAMBDA l : l # <<>>)

\* chunk k of lines cut into chunks of n lines
Chunk(lines, n, k) ==
    SubSeq(lines, (k - 1) * n + 1, IF k * n < Len(lines) THEN k * n ELSE Len(lines))

\* C10: for a plan text without any Day token, day k gets the k-th chunk of
\* max(1, L div 8) of the L non-blank lines, one task per line; 16 lines
\* give eight days of two tasks.
C10_ChunkFallback ==
    (call.fn = "parse_plan_to_tasks" /\ ret # <<>>
       /\ \A i \in Days : TokenAt(call.arg, i) = 0) =>
        /\ ~ret[1].raised
        /\ \A k \in Days :
              Len(ret[1].value[k])
                = Len(Chunk(NonBlankLines(call.arg),
                            Max({1, Len(NonBlankLines(call.arg)) \div NumDays}), k))

\* a bullet-style line: "- text", or a digit, ")" or "." and text
IsBullet(l) ==
    \/ StartsWith(l, <<"-", " ">>)
    \/ Len(l) >= 2 /\ IsDigit(l[1]) /\ l[2] \in {")", "."}

\* the places in the lines ls where the header of day n stands
HeaderLinesOf(ls, n) == {k \in 1..Len(ls) : ls[k] = HeaderLine(n)}

\* the lines ls have each of the eight headers once, in increasing order,
\* each followed by a bullet line, and no line that is neither header nor
\* bullet
WellFormedLines(ls) ==
    /\ \A n \in Days : Cardinality(HeaderLinesOf(ls, n)) = 1
    /\ \A n \in 1..NumDays - 1 : Max(HeaderLinesOf(ls, n)) < Max(HeaderLinesOf(ls, n + 1))
    /\ \A k \in 1..Len(ls) :
          \/ IsBullet(ls[k])
          \/ /\ \E n \in Days : ls[k] = HeaderLine(n)
             /\ k < Len(ls)
             /\ IsBullet(ls[k + 1])

WellFormed(text) == LET ls == SplitLines(text) IN WellFormedLines(ls)

\* the number of bullet lines that follow the header of day n in the lines
\* ls, up to the next header
BulletsAfterLine(ls, n) ==
    (IF n < NumDays THEN Max(HeaderLinesOf(ls, n + 1)) ELSE Len(ls) + 1)
        - Max(HeaderLinesOf(ls, n)) - 1

\* C11: for a plan text with the headers "Day 1:" to "Day 8:" in increasing
\* order and bullet lines after each, parse_plan_to_tasks returns eight
\* day-slots, and the slot of each day holds as many tasks as bullet lines
\* follow its header, so that the tasks are as many as the bullet lines.
C11_BulletsBecomeTasks ==
    (call.fn = "parse_plan_to_tasks" /\ ret # <<>> /\ WellFormed(call.arg)) =>
        /\ ~ret[1].raised
        /\ Len(ret[1].value) = NumDays
        /\ LET ls == SplitLines(call.arg)
           IN  \A n \in 1..Len(ret[1].value) :
                   Len(ret[1].value[n]) = BulletsAfterLine(ls, n)

----------------------------------------------------------------------------
\* C12: a write to session.json, users.json or projects.json that is
\* interrupted before it completes leaves the previous content of the file:
\* a read after it gives what a read before it gave, never the default that
\* stands for an empty or half-written file.
C12_InterruptedWriteKeepsOld ==
    [][(ev'.op \in InterruptedOps) =>
          /\ session_file' = session_file \/ session_file'.valid
          /\ users_file' = users_file
          /\ projects_file' = projects_file]_vars

----------------------------------------------------------------------------
\* C13: an id that was assigned and whose task was then removed is not
\* assigned again; in particular the id of the task that the last run
\* removed is the id of no task after an add or a regeneration in this run.
C13_RemovedIdNotReused ==
    [][(ev.op = "remove" /\ ev'.op \in {"add", "regen"}) =>
          ev.id \notin AllIds(Tasks')]_vars

----------------------------------------------------------------------------
\* the collaborator's first calling convention is there and does not raise
FirstAnswers(ai) == ai.has_generate_text /\ ~ai.gt.raises

\* C14: a call of call_ai invokes the collaborator at most twice and each
\* calling convention at most once; GenerativeModel is tried only when
\* generate_text is not there or raised; and when the last attempt raised,
\* call_ai returns a failure with that attempt as its last.
C14_AtMostOnePerConvention ==
    (call.fn = "call_ai" /\ ret # <<>>) =>
        LET attempts == ret[1].attempts
        IN  /\ Len(attempts) <= 2
            /\ \A i \in 1..Len(attempts), j \in 1..Len(attempts) :
                    attempts[i] = attempts[j] => i = j
            /\ (\E i \in 1..Len(attempts) : attempts[i] = "GenerativeModel") =>
                    ~FirstAnswers(call.arg)
            /\ (call.arg.key /\ ~FirstAnswers(call.arg) /\ call.arg.gm.raises) =>
                    /\ ~ret[1].ok
                    /\ attempts[Len(attempts)] = "GenerativeModel"

\* the case of C14: both conventions were tried and both raised
C14_Witness ==
    /\ call.fn = "call_ai"
    /\ ret # <<>>
    /\ ret[1].attempts = <<"generate_text", "GenerativeModel">>
    /\ ~ret[1].ok

\* the convention of the collaborator that call_ai takes its answer from
\* returns, and the text of its response is empty
AnswersEmpty(ai) ==
    /\ ai.key
    /\ \/ FirstAnswers(ai) /\ ai.gt.text = <<>>
       \/ ~FirstAnswers(ai) /\ ~ai.gm.raises /\ ai.gm.text = <<>>

\* C15: when the collaborator answers without raising but with empty text,
\* the run of Generate keeps the fallback plan as the raw plan of the draft
\* and records a last error: the raw plan is neither empty nor the rendering
\* of the response object.
C15_EmptyAnswerIsFailure ==
    (call.fn = "generate" /\ ret # <<>> /\ AnswersEmpty(call.arg)) =>
        /\ ret[1].project.raw_plan = MockPlanText
        /\ ret[1].last_ai_error # None

----------------------------------------------------------------------------
\* C16: right after a save by the user of the session (Save Project, or a
\* generation that reached its save), load_last_project_for_user returns
\* the project that was saved, whether the Supabase query returns or not;
\* and it returns None for a user without a snapshot in either store.
C16_LoadReturnsLastSaved ==
    /\ (ev.op \in SaveOps) =>
          \A q \in QueryOutcomes : load_last_project_for_user(World, q) = <<ss.project>>
    /\ (/\ LocalHistory(projects_file, ss.user_email) = <<>>
        /\ LocalHistory(projects_file, ss.user) = <<>>
        /\ SupabaseHistory(supa_projects, ss.user_email) = <<>>) =>
          \A q \in QueryOutcomes : load_last_project_for_user(World, q) = <<>>

----------------------------------------------------------------------------
\* the runs that json.load ended, on a file that does not parse
UnreadableOps == {"first_login_unreadable", "first_sign_up_unreadable"}

\* C17: read_json gives the caller's default for a file that is missing or
\* does not parse, and no run that reads users.json, projects.json or
\* session.json is ended by an exception because of such a file.
C17_UnreadableFileNeverRaises ==
    /\ \A file \in {session_file, users_file, projects_file} :
           ~file.valid => read_json(file, EmptyObject) = EmptyObject
    /\ ev.op \notin UnreadableOps

----------------------------------------------------------------------------
\* the world as the widgets of this run find it: the checkpoint loaded, the
\* sidebar drawn (lines 180 and 654-656)
Found == Entered(World, TRUE)

\* C18: an Add with text that is not blank appends one task to the end of
\* the chosen day, not done and with the id (largest id of the eight days
\* before) + 1, or 0 when the project had no task, and leaves the other days
\* as they were; an Add with empty or blank text changes neither the project
\* nor the checkpoint that the run found.
C18_AddAppendsWithNextId ==
    [][/\ (ev'.op = "add") =>
            LET d == ev'.day
                before == Found.ss.project.tasks
                n == Len(before[d])
            IN  /\ Len(Tasks'[d]) = n + 1
                /\ SubSeq(Tasks'[d], 1, n) = before[d]
                /\ Tasks'[d][n + 1].done = FALSE
                /\ Tasks'[d][n + 1].text # <<>>
                /\ Tasks'[d][n + 1].id =
                      IF AllIds(before) = {} THEN 0 ELSE Max(AllIds(before)) + 1
                /\ \A o \in Days \ {d} : Tasks'[o] = before[o]
       /\ (ev'.op = "add_blank") =>
            /\ ss'.project = Found.ss.project
            /\ session_file' = Found.session_file]_vars

\* the case of C18: a task was added behind another of its day while the
\* largest id of the project was in another day
C18_Witness ==
    /\ ev.op = "add"
    /\ Len(Tasks[ev.day]) >= 2
    /\ \E o \in Days \ {ev.day} : \E k \in 1..Len(Tasks[o]) : Tasks[o][k].id = ev.id - 1

----------------------------------------------------------------------------
\* C19: a Regenerate Day that the collaborator answers replaces the whole
\* task sequence of the chosen day by at most 6 tasks, none done, with
\* consecutive ids that start at (largest id of the project before) + 1,
\* and leaves the other seven days as they were.
C19_RegenerateReplacesOneDay ==
    (call.fn = "regenerate" /\ ret # <<>>) =>
        LET d == call.arg[1]
            before == call.project
            after == ret[1]
        IN  /\ Len(after) = NumDays
            /\ Len(after[d]) <= 6
            /\ \A k \in 1..Len(after[d]) :
                   /\ after[d][k].done = FALSE
                   /\ after[d][k].id = after[d][1].id + k - 1
                   /\ after[d][k].id \notin AllIds(before)
            /\ (after[d] # <<>> /\ AllIds(before) # {}) =>
                   after[d][1].id = Max(AllIds(before)) + 1
            /\ \A o \in 1..Len(after) : o # d => after[o] = before[o]

\* the case of C19: a reply of more than 6 lines replaced a day that had
\* tasks, while the largest id of the project was in another day
C19_Witness ==
    /\ call.fn = "regenerate"
    /\ ret # <<>>
    /\ Len(ret[1][call.arg[1]]) = MaxRegenLines
    /\ Len(SplitLines(call.arg[2])) > MaxRegenLines
    /\ call.project[call.arg[1]] # <<>>
    /\ \E o \in Days \ {call.arg[1]} :
          \E k \in 1..Len(call.project[o]) :
             call.project[o][k].id = Max(AllIds(call.project))

----------------------------------------------------------------------------
\* seq without its k-th element
Without(seq, k) == SubSeq(seq, 1, k - 1) \o SubSeq(seq, k + 1, Len(seq))

\* C20: a toggle, a text edit or a Remove for (day, task id) changes only
\* the task of that day with that id, compared with the draft the run found:
\* the toggle flips its done flag and nothing else, the edit changes its
\* text and nothing else, the Remove deletes it and keeps the others in
\* their order; every other task of every day keeps its id, text, done flag
\* and position.
C20_OnlyThatTaskChanges ==
    [][(ev'.op \in {"toggle", "edit", "remove"}) =>
          \E q \in QueryOutcomes :
             LET before == Entered(World, q).ss.project.tasks
                 d == ev'.day
                 at == {k \in 1..Len(before[d]) : before[d][k].id = ev'.id}
             IN  /\ \A o \in Days \ {d} : Tasks'[o] = before[o]
                 /\ Cardinality(at) = 1
                 /\ \A k \in at :
                       /\ (ev'.op = "remove") => Tasks'[d] = Without(before[d], k)
                       /\ (ev'.op = "toggle") =>
                             Tasks'[d] = [before[d] EXCEPT ![k].done = ~before[d][k].done]
                       /\ (ev'.op = "edit") =>
                             /\ Len(Tasks'[d]) = Len(before[d])
                             /\ Tasks'[d][k].text # before[d][k].text
                             /\ Tasks'[d] = [before[d] EXCEPT ![k].text = Tasks'[d][k].text]
    ]_vars

\* the case of C20: the checkbox of one task was ticked in a day that holds
\* other tasks, which are not done
C20_Witness ==
    /\ ev.op = "toggle"
    /\ Len(Tasks[ev.day]) >= 2
    /\ \A k \in 1..Len(Tasks[ev.day]) : Tasks[ev.day][k].done <=> Tasks[ev.day][k].id = ev.id

----------------------------------------------------------------------------
\* the runs of Generate 8-day Plan with a title that is not blank
GenerateOps == {"generate_ok", "generate_fallback", "generate_raised"}

\* C21: after a run of Generate with a title that is not blank, the draft
\* has a raw plan, generated_at is the time of the run, and the tasks of all
\* eight days are what parse_plan_to_tasks returns for the raw plan, so that
\* no task from before the generation is left.
C21_GenerationOverwritesTasks ==
    (ev.op \in GenerateOps) =>
        /\ ss.project.generated_at = now
        /\ ~ParsePlan(ss.project.raw_plan).raised
        /\ Tasks = ParsePlan(ss.project.raw_plan).value

----------------------------------------------------------------------------
\* C22: a run of Generate with an empty or blank title leaves the session
\* state that the run found (the draft, and last_ai_error, which a failed
\* call of the collaborator would set), the checkpoint and the history of
\* both stores as they were.
C22_BlankTitleRejected ==
    [][(ev'.op = "generate_no_title") =>
          /\ \E q \in QueryOutcomes :
                /\ ss' = Entered(World, q).ss
                /\ session_file' = Entered(World, q).session_file
          /\ projects_file' = projects_file
          /\ supa_projects' = supa_projects]_vars

\* the case of C22: Generate with a blank title, on a draft that has a title
\* and a snapshot in the history
C22_Witness ==
    /\ ev.op = "generate_no_title"
    /\ ss.project.title # <<>>
    /\ \/ LocalHistory(projects_file, UserKey(ss)) # <<>>
       \/ SupabaseHistory(supa_projects, ss.user_email) # <<>>

----------------------------------------------------------------------------
\* C23: the tasks that parse_plan_to_tasks returns, read day 1 to day 8 and
\* top to bottom within a day, have the ids 0, 1, 2, ... in that order,
\* without gap or repeat, and none is done.
C23_ParseIdsCountFromZero ==
    (call.fn = "parse_plan_to_tasks" /\ ret # <<>> /\ ~ret[1].raised) =>
        LET flat == Concat(ret[1].value)
        IN  \A i \in 1..Len(flat) : flat[i].id = i - 1 /\ flat[i].done = FALSE

\* the case of C23: the parse returned several tasks in one day and tasks
\* in a later day
C23_Witness ==
    /\ call.fn = "parse_plan_to_tasks"
    /\ ret # <<>>
    /\ ~ret[1].raised
    /\ \E d \in Days, e \in Days :
          d < e /\ Len(ret[1].value[d]) >= 2 /\ ret[1].value[e] # <<>>

----------------------------------------------------------------------------
\* the runs of the interactive edits of the day cards and of the chat import
EditOps == {"add", "add_blank", "toggle", "edit", "remove", "regen", "regen_failed",
            "clear", "import", "import_raised"}

\* C24: an interactive edit (add, toggle, text edit, remove, regenerate
\* day, clear day, chat import) leaves the history of every user, in
\* projects.json and in the Supabase table, as it was: the snapshots saved
\* earlier from the same draft do not change with the draft.
C24_EditsKeepHistory ==
    [][(ev'.op \in EditOps) =>
          /\ projects_file' = projects_file
          /\ supa_projects' = supa_projects]_vars

\* the case of C24: an edit has changed the tasks of a draft whose snapshot,
\* saved before under the same title, is the last of the user's history
C24_Witness ==
    /\ ev.op \in {"add", "toggle", "edit", "remove", "regen", "clear"}
    /\ LET mine == LocalHistory(projects_file, UserKey(ss))
       IN  /\ mine # <<>>
           /\ mine[Len(mine)].title = ss.project.title
           /\ mine[Len(mine)].tasks # Tasks

----------------------------------------------------------------------------
\* SpecFeed: posts to the feed by a user who is logged in, with and without
\* Supabase, in behaviours of at most MaxEvents script runs
PostInputs == {<<"p", " ">>, <<" ">>}

\* what the collaborator answers to a request for suggestions: four lines,
\* one line, and a dash alone
SuggestReplies ==
    {JoinLines([k \in 1..MaxSuggestions + 1 |-> <<"-", " ", "s">>]), <<"s">>, <<"-">>}

InitFeed == \E supabase \in BOOLEAN : StartIn(RestartWorld(FreshWorld, supabase))

NextFeed ==
    \/ \E q \in QueryOutcomes, t \in PostInputs, ai \in AiBehaviours(SuggestReplies),
          i \in InsertOutcomes : Counted /\ Post(t, ai, i, q)
    \/ \E supabase \in BOOLEAN : Counted /\ Restart(supabase)

SpecFeed == InitFeed /\ [][NextFeed]_vars

\* C25: a post adds exactly one entry at the head of the feed, as
\* read_feed_for_user reads it, and leaves the earlier entries as they were
\* and in their order; the new entry has the text posted and between 1 and 3
\* suggestions, whether the call of the collaborator succeeded or failed.
C25_PostAddsOneEntry ==
    [][(ev'.op = "post") =>
          \A q \in QueryOutcomes :
             LET before == read_feed_for_user(World, q)
                 after == read_feed_for_user(World', q)
             IN  /\ Len(after) = Len(before) + 1
                 /\ Tail(after) = before
                 /\ after[1].text = <<"p">>
                 /\ Len(after[1].suggestions) \in 1..3]_vars

----------------------------------------------------------------------------
\* C26: when the call of the collaborator fails in Regenerate Day, the
\* tasks of the chosen day, the rest of the draft and the checkpoint stay
\* as the run found them: the day is neither emptied nor given other tasks.
C26_FailedRegenerateKeepsDay ==
    [][(ev'.op = "regen_failed") =>
          /\ ss'.project = Found.ss.project
          /\ session_file' = Found.session_file]_vars

\* the case of C26: the regeneration of a day that holds tasks has failed
C26_Witness ==
    /\ ev.op = "regen_failed"
    /\ Tasks[ev.day] # <<>>
    /\ session_file.valid
    /\ session_file.data.project.tasks = Tasks

----------------------------------------------------------------------------
\* SpecChat: Ask DayBot, later runs of the Chat tab and Send, on a draft
\* that holds tasks, in behaviours of at most MaxEvents script runs
InitChat ==
    StartIn(GenerateRun(FreshWorld, <<"T">>, <<>>,
                        Answering(DayToken(1) \o <<":", NL, "-", " ", "a", NL, "-", " ", "b">>),
                        FALSE, TRUE))

\* what the collaborator answers in the Chat tab: the replies of ChatReplies
\* and a reply with two tasks for day 2
ImportReplies ==
    ChatReplies \cup {DayToken(2) \o <<NL, "-", " ", "c", NL, "-", " ", "d">>}

NextChat ==
    \/ \E d \in DayInputs, k \in 1..MaxId, ai \in AiBehaviours(ImportReplies) :
          Counted /\ AskDayBot(d, k, ai, TRUE)
    \/ \E ai \in AiBehaviours(ImportReplies) : Counted /\ ChatRerun(ai, TRUE)
    \/ \E m \in ChatInputs, ai \in AiBehaviours(ImportReplies) : Counted /\ Send(m, ai, TRUE)
    \/ Counted /\ Import(TRUE)

SpecChat == InitChat /\ [][NextChat]_vars

\* the transcript as the run finds it
FoundChat == Found.ss.chat_history

\* C27: the run of a click on Ask DayBot makes the automatic call once:
\* a call that failed appends one "unavailable" message of DayBot and
\* nothing else, a call that succeeded appends one user message and then
\* one message of DayBot; chat_pref is then set and chat_pref_processed is
\* true, as they are at the end of every run, and a later run without a
\* click on Ask DayBot appends nothing by itself.
C27_OneAutomaticCall ==
    [][/\ (ev'.op = "ask_failed") =>
            /\ ss'.chat_history = Append(FoundChat, Message("DayBot", AskUnavailable, now))
            /\ ss'.last_ai_error # None
       /\ (ev'.op = "ask_ok") =>
            /\ Len(ss'.chat_history) = Len(FoundChat) + 2
            /\ SubSeq(ss'.chat_history, 1, Len(FoundChat)) = FoundChat
            /\ ss'.chat_history[Len(FoundChat) + 1].role = "user"
            /\ ss'.chat_history[Len(FoundChat) + 2].role = "DayBot"
       /\ (ev'.op \in {"ask_ok", "ask_failed"}) => ss'.chat_pref # <<>>
       /\ ss'.chat_pref # <<>> => ss'.chat_pref_processed
       /\ (ev'.op = "rerun") => ss'.chat_history = FoundChat]_vars

\* the case of C27: a run without a click follows an Ask DayBot whose call
\* succeeded, and the transcript still ends with the two messages of that call
C27_Witness ==
    /\ ev.op = "rerun"
    /\ ss.chat_pref # <<>>
    /\ Len(ss.chat_history) = 2
    /\ ss.chat_history[1].role = "user"
    /\ ss.chat_history[1].text = ImproveTask \o ss.chat_pref[1].task_text

----------------------------------------------------------------------------
\* SpecReload: history loads into the draft.  ann has added a task to a
\* draft without title, and the process has started again, with Supabase
\* or without.
InitReload ==
    \E supabase \in BOOLEAN :
        StartIn(RestartWorld(AddRun(FreshWorld, 1, <<"x">>, TRUE), supabase))

NextReload ==
    \/ \E q \in QueryOutcomes, i \in InsertOutcomes : Counted /\ SaveProject(i, q)
    \/ \E q \in QueryOutcomes : Counted /\ StartPlanning(q)
    \/ \E q \in QueryOutcomes, tab \in Tabs : Counted /\ Navigate(tab, q)
    \/ \E q \in QueryOutcomes, t \in TitleInputs, c \in ConstraintInputs,
          ai \in AiBehaviours(PlanReplies), i \in InsertOutcomes :
          Counted /\ Generate(t, c, ai, i, q)
    \/ \E q \in QueryOutcomes, d \in DayInputs : Counted /\ Clear(d, q)

SpecReload == InitReload /\ [][NextReload]_vars

\* the newest snapshot of each store that holds snapshots of the user of the
\* session: the latest snapshot of the user is one of them
NewestSnapshots ==
    LET stores == <<[r \in DOMAIN SupabaseHistory(supa_projects, ss.user_email) |->
                        SupabaseHistory(supa_projects, ss.user_email)[r].project_json],
                    LocalHistory(projects_file, ss.user_email),
                    LocalHistory(projects_file, ss.user)>>
    IN  {stores[n][Len(stores[n])] : n \in {m \in 1..3 : stores[m] # <<>>}}

\* C28: in a run that only changes the tab, a draft with a title is the
\* draft the session had, whatever the history holds; and in such a run
\* right after Start Planning the draft becomes the latest snapshot of the
\* user when the user has snapshots.
C28_HistoryLoadsIntoEmptyDraft ==
    [][(ev'.op = "navigate") =>
          /\ Loaded(World).ss.project.title # <<>> =>
                ss'.project = Loaded(World).ss.project
          /\ (ev.op = "start_planning" /\ NewestSnapshots # {}) =>
                ss'.project \in NewestSnapshots]_vars

----------------------------------------------------------------------------
\* the tasks parse_plan_to_tasks finds in the last message of transcript
TasksIn(transcript) == parse_plan_to_tasks(transcript[Len(transcript)].text).value

\* C29: the import only appends.  Every day keeps the tasks it had, as
\* they were and where they were; the tasks parsed for the day follow them
\* in the order of the reply, not done; the n-th imported task, counting
\* through the days, has the id that is n more than the largest id of the
\* draft before (n - 1 for a draft without tasks); and no two tasks of the
\* draft have the same id afterwards.
C29_ImportOnlyAppends ==
    [][(ev'.op = "import") =>
          LET old == Found.ss.project.tasks
              new == ss'.project.tasks
              parsed == TasksIn(Found.ss.chat_history)
          IN  /\ \A d \in Days :
                    LET earlier == Len(Concat(SubSeq(parsed, 1, d - 1)))
                    IN  /\ Len(new[d]) = Len(old[d]) + Len(parsed[d])
                        /\ SubSeq(new[d], 1, Len(old[d])) = old[d]
                        /\ \A j \in 1..Len(parsed[d]) :
                              new[d][Len(old[d]) + j] =
                                  [id |-> NewId(old) + earlier + j - 1,
                                   text |-> parsed[d][j].text,
                                   done |-> FALSE]
              /\ \A d1 \in Days, d2 \in Days :
                    \A k1 \in 1..Len(new[d1]), k2 \in 1..Len(new[d2]) :
                        (d1 # d2 \/ k1 # k2) => new[d1][k1].id # new[d2][k2].id]_vars

\* the case of C29: two tasks were imported into day 2 of a draft whose
\* day 1 holds two tasks
C29_Witness ==
    /\ ev.op = "import"
    /\ Len(Tasks[1]) = 2
    /\ Len(Tasks[2]) = 2

----------------------------------------------------------------------------
\* C30: in every state the app reaches, a draft with a generation time or
\* with a raw plan has a title.
C30_GeneratedDraftHasTitle ==
    (ss.project.generated_at # NoTime \/ ss.project.raw_plan # <<>>) =>
        ss.project.title # <<>>

\* the case of C30: a run that changes the tab finds the draft of an
\* earlier generation
C30_Witness ==
    /\ ev.op = "navigate"
    /\ ss.project.generated_at # NoTime
    /\ ss.project.raw_plan # <<>>
    /\ ss.project.title # <<>>

----------------------------------------------------------------------------
\* SpecExpiry: sessions that outlive their login.  ann has generated a plan;
\* the clock advances up to MaxNow, the process starts again, and runs of
\* the app and of the login screen follow.
MaxNow == 2

InitExpiry ==
    StartIn(GenerateRun(FreshWorld, <<"T">>, <<>>,
                        Answering(DayToken(1) \o <<":", NL, "-", " ", "a">>), FALSE, TRUE))

NextExpiry ==
    \/ now < MaxNow /\ ClockAdvances
    \/ \E supabase \in BOOLEAN : Counted /\ Restart(supabase)
    \/ Counted /\ LoginScreenRerun
    \/ \E a \in Accounts, p \in Passwords : Counted /\ Login(a.email, p)
    \/ \E q \in QueryOutcomes, tab \in Tabs : Counted /\ Navigate(tab, q)
    \/ \E q \in QueryOutcomes : Counted /\ SidebarLogout(q)
    \/ \E q \in QueryOutcomes : Counted /\ HomeLogout(q)
    \/ \E q \in QueryOutcomes, m \in ChatInputs, ai \in AiBehaviours(ChatReplies) :
          Counted /\ Send(m, ai, q)

SpecExpiry == InitExpiry /\ [][NextExpiry]_vars

\* the checkpoint holds a login_expires that is in the past
CheckpointExpired ==
    /\ session_file.valid
    /\ "login_expires" \in DOMAIN session_file.data
    /\ session_file.data.login_expires # NoTime
    /\ session_file.data.login_expires < now

\* C31: in the first run of a new process, when login_expires of the
\* checkpoint is in the past the app is not shown, and the run of the login
\* screen leaves user and user_email None while active_tab, project and
\* chat_history are those of the checkpoint; when login_expires is absent
\* or not in the past, the run of the login screen or of a change of tab
\* has the user and user_email the checkpoint stores.
C31_ExpiredLoginNotRestored ==
    [][(ev.op = "restart" /\ session_file.valid) =>
          LET data == session_file.data
          IN  /\ CheckpointExpired => ~LoggedIn(World)
              /\ (CheckpointExpired /\ ev'.op = "login_screen") =>
                    /\ ss'.user = None
                    /\ ss'.user_email = None
                    /\ ss'.active_tab = data.active_tab
                    /\ ss'.project = data.project
                    /\ ss'.chat_history = data.chat_history
              /\ (~CheckpointExpired /\ ev'.op \in {"login_screen", "navigate"}) =>
                    /\ ss'.user = data.user
                    /\ ss'.user_email = data.user_email]_vars

\* the case of C31: the login screen is shown in a new process although the
\* checkpoint stores ann, with the plan and the transcript of the checkpoint
C31_Witness ==
    /\ ev.op = "login_screen"
    /\ ss.user = None
    /\ session_file.data.user = "ann"
    /\ session_file.data.login_expires < now
    /\ ss.project.title = <<"T">>
    /\ ss.chat_history # <<>>

=============================================================================
